---- MODULE Spec2Model ----
(***************************************************************************)
(* Model of the inspector proxy's forwarding engine                        *)
(* (server/src/mcpProxy.ts).  One mcpProxy relationship wires a            *)
(* client-facing transport to a server-facing transport.  The handlers of  *)
(* mcpProxy are the actions; send() and close() return promises whose      *)
(* settlement (and the .catch handler that runs on rejection) is a         *)
(* separate step, since other events can occur while a promise is pending. *)
(* mcpProxy attaches only .catch handlers: a promise that resolves runs no *)
(* code of mcpProxy, so only rejections are steps of the model and a call  *)
(* that is not (yet) rejected stays PENDING.                               *)
(* The two transports are the environment: they may fire onmessage,        *)
(* onerror and onclose in any order.                                       *)
(***************************************************************************)
EXTENDS Integers, Sequences, FiniteSets, TLC

\* ------------------------------------------------------------------ bounds
MaxClientMsgs == 2      \* messages the client-facing transport delivers
MaxServerMsgs == 2      \* messages the server-facing transport delivers
MaxCloseEvents == 2     \* onclose events one transport may fire
MaxErrorEvents == 1     \* onerror events one transport may fire
MaxEvents == 3          \* events the two transports fire altogether

\* --------------------------------------------------------------- envelopes
NoId == 0
NoMethod == ""
NoResult == ""
JSONRPC_VERSION == "2.0"
Ids == {1, 2}

\* Error objects: the text of message and of the serialized cause, as a
\* sequence of fragments (a fragment is a piece of text that is searched
\* for as a whole).
NoText == <<>>
ECONNREFUSED == "ECONNREFUSED"
HTTP404 == "Error POSTing to endpoint (HTTP 404)"
NoErrorObj == [message |-> NoText, cause |-> NoText]
NoError == [code |-> 0, message |-> NoText, data |-> NoErrorObj]

SendErrors ==
    { [message |-> <<ECONNREFUSED>>, cause |-> NoText],
      [message |-> <<"Not connected">>, cause |-> NoText] }

Errors ==
    SendErrors \cup
    { [message |-> <<"SSE error:", HTTP404>>, cause |-> NoText],
      [message |-> <<"fetch failed">>, cause |-> <<"connect", ECONNREFUSED>>] }

Request(i, meth) ==
    [jsonrpc |-> JSONRPC_VERSION, id |-> i, method |-> meth,
     result |-> NoResult, error |-> NoError]

Notification(meth) ==
    [jsonrpc |-> JSONRPC_VERSION, id |-> NoId, method |-> meth,
     result |-> NoResult, error |-> NoError]

Response(i, res) ==
    [jsonrpc |-> JSONRPC_VERSION, id |-> i, method |-> NoMethod,
     result |-> res, error |-> NoError]

\* The envelopes the client-facing transport may deliver: requests,
\* notifications and responses (to requests of the server).
ClientEnvelopes ==
    { Request(i, "x") : i \in Ids } \cup { Notification("x"), Response(1, "ok") }

\* The envelopes the server-facing transport may deliver.
ServerEnvelopes ==
    { Response(1, "ok"), Notification("x") }

\* A request check that accepts every envelope.
isJSONRPCRequest_AnyMessage(message) == message.jsonrpc = JSONRPC_VERSION

\* isJSONRPCRequest: the strict request schema, a version tag, an id and a
\* method, and no result or error member.
isJSONRPCRequest(message) ==
    /\ message.jsonrpc = JSONRPC_VERSION
    /\ message.id # NoId
    /\ message.method # NoMethod
    /\ message.result = NoResult
    /\ message.error = NoError

ProxyErrorCode == -32001

\* An error response with the generic JSON-RPC internal-error code.
errorResponse_GenericCode(message, error) ==
    [jsonrpc |-> JSONRPC_VERSION, id |-> message.id, method |-> NoMethod,
     result |-> NoResult,
     error |-> [code |-> -32603, message |-> error.message, data |-> error]]

\* The error response synthesized for a failed client-to-server send.
errorResponse(message, error) ==
    [jsonrpc |-> JSONRPC_VERSION, id |-> message.id, method |-> NoMethod,
     result |-> NoResult,
     error |-> [code |-> ProxyErrorCode, message |-> error.message,
                data |-> error]]

\* text.includes(fragment)
Includes(text, fragment) == \E k \in 1..Len(text) : text[k] = fragment

\* A classification that looks for both patterns in the message only.
ServerErrorKind_MessageOnly(error) ==
    IF error.message # NoText
            /\ (Includes(error.message, HTTP404)
                    \/ Includes(error.message, ECONNREFUSED))
    THEN "refused"
    ELSE "server"

\* onServerError's choice of diagnostic.
ServerErrorKind(error) ==
    IF \/ (error.message # NoText /\ Includes(error.message, HTTP404))
       \/ (error.cause # NoText /\ Includes(error.cause, ECONNREFUSED))
    THEN "refused"
    ELSE "server"

\* ------------------------------------------------------------------- state
VARIABLES
    transportToClientClosed,  \* mcpProxy's flag
    transportToServerClosed,  \* mcpProxy's flag
    reportedServerSession,    \* mcpProxy's flag
    serverSessionId,          \* transportToServer.sessionId ("" = undefined)
    clientRecv,               \* envelopes delivered by transportToClient.onmessage
    serverRecv,               \* envelopes delivered by transportToServer.onmessage,
                              \*   each with the sessionId exposed at that moment
    serverSendCalls,          \* calls of transportToServer.send, with outcome
    clientSendCalls,          \* calls of transportToClient.send, with outcome
    serverCloseCalls,         \* calls of transportToServer.close()
    clientCloseCalls,         \* calls of transportToClient.close()
    serverClosePending,       \* close() promises of transportToServer not settled
    clientClosePending,       \* close() promises of transportToClient not settled
    clientOnCloseEvents,      \* onclose events fired by transportToClient
    serverOnCloseEvents,      \* onclose events fired by transportToServer
    clientOnErrorEvents,      \* onerror events fired by transportToClient
    serverOnErrorEvents,      \* onerror events fired by transportToServer
    firstClosed,              \* which transport fired onclose first
    diag,                     \* what was written to the diagnostic stream
    \* the session registry and the connection endpoint handlers
    webAppTransports,         \* Map: session id -> client-facing transport
    serverTransports,         \* Map: session id -> server-facing transport
    conn,                     \* the connection requests and their transports
    routed,                   \* handleRequest calls made for existing sessions
    evictions,                \* disconnect requests served
    posted,                   \* POST /message requests and their answers
    \* the debug logger and the transport wrapper (or mcpProxy) that uses it
    logFileHandle,            \* DebugLogger.logFileHandle (0 = null)
    initialized,              \* DebugTransportWrapper.initialized
    initializeCalls,          \* calls of DebugLogger.initialize()
    initializeFailures,       \* a call of DebugLogger.initialize() has failed
    ioFailures,               \* a write or close of the open log file has failed
    openedHandles,            \* file handles fs.open has returned
    closedHandles,            \* file handles that have been closed
    logFile,                  \* the records appended to the log file
    task,                     \* the invocations of the async operations
    innerCalls,               \* calls made on the wrapped transport
    delivered,                \* calls of the consumer's callbacks
    overlapped,               \* an operation began while another was running
    \* the server-side transport wrapper
    serverWrapper,            \* its callbacks, and the events and calls so far
    \* the debug loggers of the mcpProxy invocations of one server process
    proxyLoggers,             \* connection -> state and path of its logger
    logFiles,                 \* path -> the loggers whose records it holds
    \* the transport factory and the /config endpoint
    factory,                  \* a createTransport call: input and outcome
    config,                   \* the default environment: inputs and outcome
    \* the platform dependency validation script
    trace                     \* a traceToWorkspace call: input, loop state, outcome

flags == <<transportToClientClosed, transportToServerClosed, reportedServerSession>>
closes == <<serverCloseCalls, clientCloseCalls, serverClosePending, clientClosePending>>
sends == <<serverSendCalls, clientSendCalls>>
recvs == <<clientRecv, serverRecv>>
events == <<clientOnCloseEvents, serverOnCloseEvents, clientOnErrorEvents,
            serverOnErrorEvents, firstClosed>>
proxyVars == <<flags, serverSessionId, recvs, sends, closes, events, diag>>
registryVars == <<webAppTransports, serverTransports, conn, routed, evictions,
                  posted>>
loggerVars == <<logFileHandle, initialized, initializeCalls,
                initializeFailures, ioFailures, openedHandles,
                closedHandles, logFile, task, innerCalls, delivered,
                overlapped>>
proxyLoggerVars == <<proxyLoggers, logFiles>>
outsideProxy == <<registryVars, loggerVars, serverWrapper, proxyLoggerVars,
                  factory, config, trace>>
outsideRegistry == <<proxyVars, loggerVars, serverWrapper, proxyLoggerVars,
                     factory, config, trace>>
outsideLogger == <<proxyVars, registryVars, serverWrapper, proxyLoggerVars,
                   factory, config, trace>>
outsideServerWrapper == <<proxyVars, registryVars, loggerVars,
                          proxyLoggerVars, factory, config, trace>>
outsideProxyLoggers == <<proxyVars, registryVars, loggerVars, serverWrapper,
                         factory, config, trace>>
outsideFactory == <<proxyVars, registryVars, loggerVars, serverWrapper,
                    proxyLoggerVars, config, trace>>
outsideConfig == <<proxyVars, registryVars, loggerVars, serverWrapper,
                   proxyLoggerVars, factory, trace>>
outsideTrace == <<proxyVars, registryVars, loggerVars, serverWrapper,
                  proxyLoggerVars, factory, config>>
vars == <<proxyVars, outsideProxy>>

NoSession == ""
SessionIds == {"abc"}

PENDING == "pending"
FAILED == "failed"

\* ---------------------------------------------------------- session registry
MaxConnections == 2     \* connection requests
MaxRouted == 1          \* requests routed to an existing session
MaxRegistryEvents == 3  \* requests and onclose events altogether
MaxPosted == 1          \* POST /message requests

Conns == 1..MaxConnections
Kinds == {"stdio", "sse", "http"}
\* The values a session id generator (randomUUID) may return.
WebAppSessionIds == {"u1", "u2"}
\* The sessionId query parameter of a POST /message (NoSession: absent).
PostedSessionIds == WebAppSessionIds \cup {NoSession}
NoTransport == 0

\* Map.set and Map.delete
MapSet(map, key, value) ==
    [k \in DOMAIN map \cup {key} |-> IF k = key THEN value ELSE map[k]]

MapDelete(map, key) == [k \in DOMAIN map \ {key} |-> map[k]]

\* Map.get (undefined: NoTransport)
MapGet(map, key) == IF key \in DOMAIN map THEN map[key] ELSE NoTransport

EmptyMap == [k \in {} |-> NoTransport]

\* A connection request that has not arrived yet.
NoConnection ==
    [kind |-> "", pc |-> "idle", sessionId |-> NoSession,
     transportToClientClosed |-> FALSE, transportToServerClosed |-> FALSE,
     clientOnClose |-> FALSE, serverOnClose |-> FALSE,
     clientCloseCalls |-> 0, serverCloseCalls |-> 0]

RegistryInit ==
    /\ webAppTransports = EmptyMap
    /\ serverTransports = EmptyMap
    /\ conn = [n \in Conns |-> NoConnection]
    /\ routed = <<>>
    /\ evictions = 0
    /\ posted = <<>>

\* ------------------------------------------------------------ debug logger
MaxTasks == 3           \* operations invoked on one wrapper, overlapping
MaxRunning == 2         \* operations in flight at the same time
MaxTurns == 4           \* operations invoked on one wrapper, one at a time

NoHandle == 0

LoggerInit ==
    /\ logFileHandle = NoHandle
    /\ initialized = FALSE
    /\ initializeCalls = 0
    /\ initializeFailures = FALSE
    /\ ioFailures = FALSE
    /\ openedHandles = 0
    /\ closedHandles = {}
    /\ logFile = <<>>
    /\ task = <<>>
    /\ innerCalls = <<>>
    /\ delivered = <<>>
    /\ overlapped = FALSE

\* ------------------------------------------------ server-side wrapper
MaxInnerEvents == 3     \* events the wrapped transport fires

EventKinds == {"message", "error", "close"}

Undefined == "undefined"

\* The wrapper and the wrapped transport after construction: nobody has
\* assigned a callback to either.
ServerWrapperInit ==
    serverWrapper = [pc |-> "new",
                     own |-> [k \in EventKinds |-> Undefined],
                     inner |-> [k \in EventKinds |-> Undefined],
                     original |-> [k \in EventKinds |-> Undefined],
                     fired |-> <<>>,
                     logCalls |-> <<>>,
                     consumerCalls |-> <<>>]

\* ------------------------------------------------ loggers of the proxies
MaxLogRecords == 4      \* records written to the log files

DebugBasePath == "/tmp/mcp-debug"
ServerPid == "pid"

NoLogger == [state |-> "none", path |-> <<>>]

ProxyLoggersInit ==
    /\ proxyLoggers = [n \in Conns |-> NoLogger]
    /\ logFiles = EmptyMap

\* ------------------------------------------------------ transport factory
NoOptions == [transportType |-> Undefined, url |-> Undefined,
              command |-> Undefined]

NotCalled == [status |-> "none", transport |-> <<>>, message |-> <<>>]

FactoryIdle ==
    factory = [options |-> NoOptions, debugBasePath |-> Undefined,
               result |-> NotCalled, attempts |-> 0]

\* ------------------------------------------------------- /config endpoint
\* An object is the sequence of its entries in property order.
NotSet == [set |-> FALSE, entries |-> <<>>]

ConfigIdle ==
    config = [sdkDefault |-> <<>>, mcpEnvVars |-> NotSet,
              defaultEnvironment |-> NotSet]

\* ------------------------------------------ platform dependency validation
MaxParents == 2         \* packages that depend on one package

\* Lockfile paths, segment by segment ("" is the root project).
NODE_MODULES == "node_modules"
Root == <<>>
PkgPaths ==
    { Root, <<"client">>, <<NODE_MODULES, "vite">>,
      <<"client", NODE_MODULES, "esbuild">> }

\* The keys of a parent map: the paths dependencies are resolved to.
ChildPaths == {p \in PkgPaths : Includes(p, NODE_MODULES)}

\* The parent maps: who depends on each resolved path.
ParentMaps ==
    [ChildPaths -> {S \in SUBSET PkgPaths : Cardinality(S) <= MaxParents}]

\* null
NoOwner == [found |-> FALSE, workspace |-> Root, directDependency |-> Root]

TraceIdle ==
    trace = [pc |-> "idle", parentMap |-> [p \in ChildPaths |-> {}],
             startPath |-> Root, queue |-> <<>>, visited |-> {},
             visits |-> <<>>, result |-> NoOwner]

\* ------------------------------------------------------------ initial state
ProxyInit ==
    /\ transportToClientClosed = FALSE
    /\ transportToServerClosed = FALSE
    /\ reportedServerSession = FALSE
    /\ serverSessionId \in {NoSession} \cup SessionIds
    /\ clientRecv = <<>>
    /\ serverRecv = <<>>
    /\ serverSendCalls = <<>>
    /\ clientSendCalls = <<>>
    /\ serverCloseCalls = 0
    /\ clientCloseCalls = 0
    /\ serverClosePending = 0
    /\ clientClosePending = 0
    /\ clientOnCloseEvents = 0
    /\ serverOnCloseEvents = 0
    /\ clientOnErrorEvents = 0
    /\ serverOnErrorEvents = 0
    /\ firstClosed = "none"
    /\ diag = [session |-> <<>>, client |-> 0, refused |-> 0, server |-> 0]

Init ==
    /\ ProxyInit /\ RegistryInit /\ LoggerInit
    /\ ServerWrapperInit /\ ProxyLoggersInit /\ TraceIdle /\ FactoryIdle /\ ConfigIdle

\* ------------------------------------------------------------- diagnostics
onClientError(d) == [d EXCEPT !.client = @ + 1]

onServerError(d, error) ==
    IF ServerErrorKind(error) = "refused"
    THEN [d EXCEPT !.refused = @ + 1]
    ELSE [d EXCEPT !.server = @ + 1]

\* A call of send(): the envelope, the promise's state, and where the call
\* came from (origin "forward": cause is the index of the relayed envelope
\* in the other side's deliveries; origin "error": cause is the index of the
\* failed call in serverSendCalls).
ServerSendCall(message, cause) ==
    [msg |-> message, outcome |-> PENDING, error |-> NoErrorObj,
     cause |-> cause, clientClosedAtFailure |-> FALSE]

ClientSendCall(message, origin, cause) ==
    [msg |-> message, outcome |-> PENDING, origin |-> origin, cause |-> cause]

\* The events the two transports have fired so far.
TransportEvents ==
    Len(clientRecv) + Len(serverRecv) + clientOnCloseEvents
        + serverOnCloseEvents + clientOnErrorEvents + serverOnErrorEvents

\* ---------------------------------------------------------------- handlers
\* onmessage that forwards nothing once the server side is marked closed.
ClientOnMessage_DropWhenClosed(message) ==
    /\ Len(clientRecv) < MaxClientMsgs
    /\ TransportEvents < MaxEvents
    /\ clientRecv' = Append(clientRecv,
            [msg |-> message, clientClosed |-> transportToClientClosed])
    /\ serverSendCalls' =
            IF transportToServerClosed
            THEN serverSendCalls
            ELSE Append(serverSendCalls,
                        ServerSendCall(message, Len(clientRecv) + 1))
    /\ UNCHANGED <<flags, serverSessionId, serverRecv, clientSendCalls,
                   closes, events, diag>>

\* transportToClient.onmessage
ClientOnMessage(message) ==
    /\ Len(clientRecv) < MaxClientMsgs
    /\ TransportEvents < MaxEvents
    /\ clientRecv' = Append(clientRecv,
            [msg |-> message, clientClosed |-> transportToClientClosed])
    /\ serverSendCalls' = Append(serverSendCalls,
            ServerSendCall(message, Len(clientRecv) + 1))
    /\ UNCHANGED <<flags, serverSessionId, serverRecv, clientSendCalls,
                   closes, events, diag>>

\* A .catch handler that tears the server side down when a send fails.
ServerSendReject_Teardown(i, error) ==
    /\ i \in 1..Len(serverSendCalls)
    /\ serverSendCalls[i].outcome = PENDING
    /\ serverSendCalls' = [serverSendCalls EXCEPT
            ![i].outcome = FAILED, ![i].error = error,
            ![i].clientClosedAtFailure = transportToClientClosed]
    /\ IF isJSONRPCRequest(serverSendCalls[i].msg) /\ ~transportToClientClosed
       THEN clientSendCalls' = Append(clientSendCalls,
                ClientSendCall(errorResponse(serverSendCalls[i].msg, error),
                               "error", i))
       ELSE UNCHANGED clientSendCalls
    /\ serverCloseCalls' = serverCloseCalls + 1
    /\ serverClosePending' = serverClosePending + 1
    /\ UNCHANGED <<flags, serverSessionId, recvs, clientCloseCalls,
                   clientClosePending, events, diag>>

\* A .catch handler that tests the server side's flag instead of the
\* client side's.
ServerSendReject_WrongFlag(i, error) ==
    /\ i \in 1..Len(serverSendCalls)
    /\ serverSendCalls[i].outcome = PENDING
    /\ serverSendCalls' = [serverSendCalls EXCEPT
            ![i].outcome = FAILED, ![i].error = error,
            ![i].clientClosedAtFailure = transportToClientClosed]
    /\ IF isJSONRPCRequest(serverSendCalls[i].msg) /\ ~transportToServerClosed
       THEN clientSendCalls' = Append(clientSendCalls,
                ClientSendCall(errorResponse(serverSendCalls[i].msg, error),
                               "error", i))
       ELSE UNCHANGED clientSendCalls
    /\ UNCHANGED <<flags, serverSessionId, recvs, closes, events, diag>>

\* transportToServer.send(message) rejects: the .catch handler of
\* transportToClient.onmessage
ServerSendReject(i, error) ==
    /\ i \in 1..Len(serverSendCalls)
    /\ serverSendCalls[i].outcome = PENDING
    /\ serverSendCalls' = [serverSendCalls EXCEPT
            ![i].outcome = FAILED, ![i].error = error,
            ![i].clientClosedAtFailure = transportToClientClosed]
    /\ IF isJSONRPCRequest(serverSendCalls[i].msg) /\ ~transportToClientClosed
       THEN clientSendCalls' = Append(clientSendCalls,
                ClientSendCall(errorResponse(serverSendCalls[i].msg, error),
                               "error", i))
       ELSE UNCHANGED clientSendCalls
    /\ UNCHANGED <<flags, serverSessionId, recvs, closes, events, diag>>

\* onmessage that never marks the session as reported.
ServerOnMessage_ReportEach(message) ==
    /\ Len(serverRecv) < MaxServerMsgs
    /\ TransportEvents < MaxEvents
    /\ serverRecv' = Append(serverRecv,
            [msg |-> message, sessionId |-> serverSessionId])
    /\ diag' = IF ~reportedServerSession /\ serverSessionId # NoSession
               THEN [diag EXCEPT !.session = Append(@, serverSessionId)]
               ELSE diag
    /\ clientSendCalls' = Append(clientSendCalls,
            ClientSendCall(message, "forward", Len(serverRecv) + 1))
    /\ UNCHANGED <<flags, serverSessionId, clientRecv, serverSendCalls,
                   closes, events>>

\* onmessage that marks the session as reported only once it reported one.
ServerOnMessage_MarkWhenReported(message) ==
    /\ Len(serverRecv) < MaxServerMsgs
    /\ TransportEvents < MaxEvents
    /\ serverRecv' = Append(serverRecv,
            [msg |-> message, sessionId |-> serverSessionId])
    /\ IF ~reportedServerSession /\ serverSessionId # NoSession
       THEN /\ diag' = [diag EXCEPT !.session = Append(@, serverSessionId)]
            /\ reportedServerSession' = TRUE
       ELSE UNCHANGED <<diag, reportedServerSession>>
    /\ clientSendCalls' = Append(clientSendCalls,
            ClientSendCall(message, "forward", Len(serverRecv) + 1))
    /\ UNCHANGED <<transportToClientClosed, transportToServerClosed,
                   serverSessionId, clientRecv, serverSendCalls, closes, events>>

\* transportToServer.onmessage
ServerOnMessage(message) ==
    /\ Len(serverRecv) < MaxServerMsgs
    /\ TransportEvents < MaxEvents
    /\ serverRecv' = Append(serverRecv,
            [msg |-> message, sessionId |-> serverSessionId])
    /\ IF ~reportedServerSession
       THEN /\ diag' = IF serverSessionId # NoSession
                       THEN [diag EXCEPT !.session = Append(@, serverSessionId)]
                       ELSE diag
            /\ reportedServerSession' = TRUE
       ELSE UNCHANGED <<diag, reportedServerSession>>
    /\ clientSendCalls' = Append(clientSendCalls,
            ClientSendCall(message, "forward", Len(serverRecv) + 1))
    /\ UNCHANGED <<transportToClientClosed, transportToServerClosed,
                   serverSessionId, clientRecv, serverSendCalls, closes, events>>

\* A .catch handler that sends a failed error response a second time.
ClientSendReject_ResendError(i, error) ==
    /\ i \in 1..Len(clientSendCalls)
    /\ clientSendCalls[i].outcome = PENDING
    /\ clientSendCalls' =
            IF clientSendCalls[i].origin = "error"
            THEN Append([clientSendCalls EXCEPT ![i].outcome = FAILED],
                        ClientSendCall(clientSendCalls[i].msg, "error",
                                       clientSendCalls[i].cause))
            ELSE [clientSendCalls EXCEPT ![i].outcome = FAILED]
    /\ diag' = onClientError(diag)
    /\ UNCHANGED <<flags, serverSessionId, recvs, serverSendCalls,
                   closes, events>>

\* A .catch handler that sends the envelope once more.
ClientSendReject_Retry(i, error) ==
    /\ i \in 1..Len(clientSendCalls)
    /\ clientSendCalls[i].outcome = PENDING
    /\ clientSendCalls' = Append(
            [clientSendCalls EXCEPT ![i].outcome = FAILED],
            ClientSendCall(clientSendCalls[i].msg, clientSendCalls[i].origin,
                           clientSendCalls[i].cause))
    /\ diag' = onClientError(diag)
    /\ UNCHANGED <<flags, serverSessionId, recvs, serverSendCalls,
                   closes, events>>

\* A .catch handler that closes the client side when a send to it fails.
ClientSendReject_Teardown(i, error) ==
    /\ i \in 1..Len(clientSendCalls)
    /\ clientSendCalls[i].outcome = PENDING
    /\ clientSendCalls' = [clientSendCalls EXCEPT ![i].outcome = FAILED]
    /\ diag' = onClientError(diag)
    /\ transportToClientClosed' = TRUE
    /\ clientCloseCalls' = clientCloseCalls + 1
    /\ clientClosePending' = clientClosePending + 1
    /\ UNCHANGED <<transportToServerClosed, reportedServerSession,
                   serverSessionId, recvs, serverSendCalls, serverCloseCalls,
                   serverClosePending, events>>

\* transportToClient.send(...) rejects: .catch(onClientError)
ClientSendReject(i, error) ==
    /\ i \in 1..Len(clientSendCalls)
    /\ clientSendCalls[i].outcome = PENDING
    /\ clientSendCalls' = [clientSendCalls EXCEPT ![i].outcome = FAILED]
    /\ diag' = onClientError(diag)
    /\ UNCHANGED <<flags, serverSessionId, recvs, serverSendCalls,
                   closes, events>>

\* onclose that does not look at the server side's flag.
ClientOnClose_NoGuard ==
    /\ clientOnCloseEvents < MaxCloseEvents
    /\ TransportEvents < MaxEvents
    /\ clientOnCloseEvents' = clientOnCloseEvents + 1
    /\ firstClosed' = IF firstClosed = "none" THEN "client" ELSE firstClosed
    /\ transportToClientClosed' = TRUE
    /\ serverCloseCalls' = serverCloseCalls + 1
    /\ serverClosePending' = serverClosePending + 1
    /\ UNCHANGED <<transportToServerClosed, reportedServerSession,
                   serverSessionId, recvs, sends, clientCloseCalls,
                   clientClosePending, serverOnCloseEvents,
                   clientOnErrorEvents, serverOnErrorEvents, diag>>

\* transportToClient.onclose
ClientOnClose ==
    /\ clientOnCloseEvents < MaxCloseEvents
    /\ TransportEvents < MaxEvents
    /\ clientOnCloseEvents' = clientOnCloseEvents + 1
    /\ firstClosed' = IF firstClosed = "none" THEN "client" ELSE firstClosed
    /\ IF transportToServerClosed
       THEN UNCHANGED <<transportToClientClosed, serverCloseCalls,
                        serverClosePending>>
       ELSE /\ transportToClientClosed' = TRUE
            /\ serverCloseCalls' = serverCloseCalls + 1
            /\ serverClosePending' = serverClosePending + 1
    /\ UNCHANGED <<transportToServerClosed, reportedServerSession,
                   serverSessionId, recvs, sends, clientCloseCalls,
                   clientClosePending, serverOnCloseEvents,
                   clientOnErrorEvents, serverOnErrorEvents, diag>>

\* onclose that does not look at the client side's flag.
ServerOnClose_NoGuard ==
    /\ serverOnCloseEvents < MaxCloseEvents
    /\ TransportEvents < MaxEvents
    /\ serverOnCloseEvents' = serverOnCloseEvents + 1
    /\ firstClosed' = IF firstClosed = "none" THEN "server" ELSE firstClosed
    /\ transportToServerClosed' = TRUE
    /\ clientCloseCalls' = clientCloseCalls + 1
    /\ clientClosePending' = clientClosePending + 1
    /\ UNCHANGED <<transportToClientClosed, reportedServerSession,
                   serverSessionId, recvs, sends, serverCloseCalls,
                   serverClosePending, clientOnCloseEvents,
                   clientOnErrorEvents, serverOnErrorEvents, diag>>

\* transportToServer.onclose
ServerOnClose ==
    /\ serverOnCloseEvents < MaxCloseEvents
    /\ TransportEvents < MaxEvents
    /\ serverOnCloseEvents' = serverOnCloseEvents + 1
    /\ firstClosed' = IF firstClosed = "none" THEN "server" ELSE firstClosed
    /\ IF transportToClientClosed
       THEN UNCHANGED <<transportToServerClosed, clientCloseCalls,
                        clientClosePending>>
       ELSE /\ transportToServerClosed' = TRUE
            /\ clientCloseCalls' = clientCloseCalls + 1
            /\ clientClosePending' = clientClosePending + 1
    /\ UNCHANGED <<transportToClientClosed, reportedServerSession,
                   serverSessionId, recvs, sends, serverCloseCalls,
                   serverClosePending, clientOnCloseEvents,
                   clientOnErrorEvents, serverOnErrorEvents, diag>>

\* transportToServer.close() rejects: .catch(onServerError)
ServerCloseReject(error) ==
    /\ serverClosePending > 0
    /\ serverClosePending' = serverClosePending - 1
    /\ diag' = onServerError(diag, error)
    /\ UNCHANGED <<flags, serverSessionId, recvs, sends, serverCloseCalls,
                   clientCloseCalls, clientClosePending, events>>

\* transportToClient.close() rejects: .catch(onClientError)
ClientCloseReject(error) ==
    /\ clientClosePending > 0
    /\ clientClosePending' = clientClosePending - 1
    /\ diag' = onClientError(diag)
    /\ UNCHANGED <<flags, serverSessionId, recvs, sends, serverCloseCalls,
                   clientCloseCalls, serverClosePending, events>>

\* transportToClient.onerror
ClientOnError(error) ==
    /\ clientOnErrorEvents < MaxErrorEvents
    /\ TransportEvents < MaxEvents
    /\ clientOnErrorEvents' = clientOnErrorEvents + 1
    /\ diag' = onClientError(diag)
    /\ UNCHANGED <<flags, serverSessionId, recvs, sends, closes,
                   clientOnCloseEvents, serverOnCloseEvents,
                   serverOnErrorEvents, firstClosed>>

\* onerror that closes the client side when the server is unreachable.
ServerOnError_CloseOnRefused(error) ==
    /\ serverOnErrorEvents < MaxErrorEvents
    /\ TransportEvents < MaxEvents
    /\ serverOnErrorEvents' = serverOnErrorEvents + 1
    /\ diag' = onServerError(diag, error)
    /\ IF ServerErrorKind(error) = "refused"
       THEN /\ clientCloseCalls' = clientCloseCalls + 1
            /\ clientClosePending' = clientClosePending + 1
       ELSE UNCHANGED <<clientCloseCalls, clientClosePending>>
    /\ UNCHANGED <<flags, serverSessionId, recvs, sends, serverCloseCalls,
                   serverClosePending, clientOnCloseEvents,
                   serverOnCloseEvents, clientOnErrorEvents, firstClosed>>

\* transportToServer.onerror
ServerOnError(error) ==
    /\ serverOnErrorEvents < MaxErrorEvents
    /\ TransportEvents < MaxEvents
    /\ serverOnErrorEvents' = serverOnErrorEvents + 1
    /\ diag' = onServerError(diag, error)
    /\ UNCHANGED <<flags, serverSessionId, recvs, sends, closes,
                   clientOnCloseEvents, serverOnCloseEvents,
                   clientOnErrorEvents, firstClosed>>

\* The server-facing transport learns its session id (streamable HTTP: on
\* the first successful handshake).
ServerSessionAssigned(sid) ==
    /\ serverSessionId = NoSession
    /\ serverSessionId' = sid
    /\ UNCHANGED <<flags, recvs, sends, closes, events, diag>>

Next ==
    \/ /\ \E message \in ClientEnvelopes : ClientOnMessage(message)
       /\ UNCHANGED outsideProxy
    \/ /\ \E i \in 1..MaxClientMsgs, error \in SendErrors : ServerSendReject(i, error)
       /\ UNCHANGED outsideProxy
    \/ /\ \E message \in ServerEnvelopes : ServerOnMessage(message)
       /\ UNCHANGED outsideProxy
    \/ /\ \E i \in 1..(MaxClientMsgs + MaxServerMsgs), error \in SendErrors :
               ClientSendReject(i, error)
       /\ UNCHANGED outsideProxy
    \/ /\ ClientOnClose
       /\ UNCHANGED outsideProxy
    \/ /\ ServerOnClose
       /\ UNCHANGED outsideProxy
    \/ /\ \E error \in Errors : ServerCloseReject(error)
       /\ UNCHANGED outsideProxy
    \/ /\ \E error \in Errors : ClientCloseReject(error)
       /\ UNCHANGED outsideProxy
    \/ /\ \E error \in Errors : ClientOnError(error)
       /\ UNCHANGED outsideProxy
    \/ /\ \E error \in Errors : ServerOnError(error)
       /\ UNCHANGED outsideProxy
    \/ /\ \E sid \in SessionIds : ServerSessionAssigned(sid)
       /\ UNCHANGED outsideProxy

Spec == Init /\ [][Next]_vars

\* ------------------------------------------- connection endpoint handlers
\* The requests received and the onclose events fired so far.
RegistryEvents ==
    Cardinality({n \in Conns : conn[n].pc # "idle"})
        + Cardinality({n \in Conns : conn[n].clientOnClose})
        + Cardinality({n \in Conns : conn[n].serverOnClose})
        + Len(routed) + evictions + Len(posted)

\* A connection request arrives (GET /stdio, GET /sse, or POST /mcp without
\* a session id); its handler awaits createTransport.
Connect(n, kind) ==
    /\ RegistryEvents < MaxRegistryEvents
    /\ conn[n].pc = "idle"
    /\ \A m \in Conns : m < n => conn[m].pc # "idle"
    /\ conn' = [conn EXCEPT ![n].kind = kind, ![n].pc = "createTransport"]
    /\ UNCHANGED <<webAppTransports, serverTransports, routed, evictions, posted>>

\* createTransport throws: the handler ends without a session.
CreateTransportFailed(n) ==
    /\ conn[n].pc = "createTransport"
    /\ conn' = [conn EXCEPT ![n].pc = "failed"]
    /\ UNCHANGED <<webAppTransports, serverTransports, routed, evictions, posted>>

\* An SSE registration that stores the client-facing transport and leaves
\* the server-facing one for after the start.
SseTransportsCreated_ClientOnly(n, sessionId) ==
    /\ conn[n].pc = "createTransport"
    /\ conn[n].kind \in {"stdio", "sse"}
    /\ webAppTransports' = MapSet(webAppTransports, sessionId, n)
    /\ conn' = [conn EXCEPT ![n].sessionId = sessionId, ![n].pc = "start"]
    /\ UNCHANGED <<serverTransports, routed, evictions, posted>>

\* GET /stdio and GET /sse after createTransport: the SSEServerTransport is
\* constructed (with its session id) and both transports are stored; the
\* handler then awaits webAppTransport.start().
SseTransportsCreated(n, sessionId) ==
    /\ conn[n].pc = "createTransport"
    /\ conn[n].kind \in {"stdio", "sse"}
    /\ webAppTransports' = MapSet(webAppTransports, sessionId, n)
    /\ serverTransports' = MapSet(serverTransports, sessionId, n)
    /\ conn' = [conn EXCEPT ![n].sessionId = sessionId, ![n].pc = "start"]
    /\ UNCHANGED <<routed, evictions, posted>>

\* POST /mcp (new connection) after createTransport: the
\* StreamableHTTPServerTransport is constructed; nothing is stored yet.
HttpTransportsCreated(n) ==
    /\ conn[n].pc = "createTransport"
    /\ conn[n].kind = "http"
    /\ conn' = [conn EXCEPT ![n].pc = "start"]
    /\ UNCHANGED <<webAppTransports, serverTransports, routed, evictions, posted>>

\* webAppTransport.start() has resolved: mcpProxy is called.  The SSE
\* handlers are done; POST /mcp goes on to webAppTransport.handleRequest.
StartProxy(n) ==
    /\ conn[n].pc = "start"
    /\ conn' = [conn EXCEPT ![n].pc =
                    IF conn[n].kind = "http" THEN "handleRequest" ELSE "proxied"]
    /\ UNCHANGED <<webAppTransports, serverTransports, routed, evictions, posted>>

\* onsessioninitialized(sessionId), called by the transport while it handles
\* the initialize request.
OnSessionInitialized(n, sessionId) ==
    /\ conn[n].pc = "handleRequest"
    /\ conn[n].sessionId = NoSession
    /\ webAppTransports' = MapSet(webAppTransports, sessionId, n)
    /\ serverTransports' = MapSet(serverTransports, sessionId, n)
    /\ conn' = [conn EXCEPT ![n].sessionId = sessionId]
    /\ UNCHANGED <<routed, evictions, posted>>

\* webAppTransport.handleRequest of POST /mcp (new connection) has resolved.
HandleRequestDone(n) ==
    /\ conn[n].pc = "handleRequest"
    /\ conn' = [conn EXCEPT ![n].pc = "proxied"]
    /\ UNCHANGED <<webAppTransports, serverTransports, routed, evictions, posted>>

ProxyStarted(n) == conn[n].pc \in {"handleRequest", "proxied"}

\* transportToClient.onclose of connection n's mcpProxy.
ConnClientOnClose(n) ==
    /\ RegistryEvents < MaxRegistryEvents
    /\ ProxyStarted(n)
    /\ ~conn[n].clientOnClose
    /\ conn' = [conn EXCEPT
            ![n].clientOnClose = TRUE,
            ![n].transportToClientClosed =
                IF conn[n].transportToServerClosed THEN @ ELSE TRUE,
            ![n].serverCloseCalls =
                IF conn[n].transportToServerClosed THEN @ ELSE @ + 1]
    /\ UNCHANGED <<webAppTransports, serverTransports, routed, evictions, posted>>

\* transportToServer.onclose of connection n's mcpProxy.
ConnServerOnClose(n) ==
    /\ RegistryEvents < MaxRegistryEvents
    /\ ProxyStarted(n)
    /\ ~conn[n].serverOnClose
    /\ conn' = [conn EXCEPT
            ![n].serverOnClose = TRUE,
            ![n].transportToServerClosed =
                IF conn[n].transportToClientClosed THEN @ ELSE TRUE,
            ![n].clientCloseCalls =
                IF conn[n].transportToClientClosed THEN @ ELSE @ + 1]
    /\ UNCHANGED <<webAppTransports, serverTransports, routed, evictions, posted>>

\* A POST /mcp that starts a session of its own instead of using the
\* registered one.
RouteHttp_NewSession(sessionId) ==
    /\ RegistryEvents < MaxRegistryEvents
    /\ Len(routed) < MaxRouted
    /\ \E n \in Conns :
        /\ conn[n].pc = "idle"
        /\ \A m \in Conns : m < n => conn[m].pc # "idle"
        /\ conn' = [conn EXCEPT ![n].kind = "http", ![n].pc = "proxied",
                                ![n].sessionId = sessionId]
        /\ webAppTransports' = MapSet(webAppTransports, sessionId, n)
        /\ serverTransports' = MapSet(serverTransports, sessionId, n)
        /\ routed' = Append(routed, [sessionId |-> sessionId, transport |-> n])
    /\ UNCHANGED <<evictions, posted>>

\* POST /mcp with an mcp-session-id header: the request is handed to the
\* transport stored under that id (NoTransport: nothing is stored, and the
\* call on undefined throws).
RouteHttp(sessionId) ==
    /\ RegistryEvents < MaxRegistryEvents
    /\ Len(routed) < MaxRouted
    /\ routed' = Append(routed,
            [sessionId |-> sessionId,
             transport |-> MapGet(webAppTransports, sessionId)])
    /\ UNCHANGED <<webAppTransports, serverTransports, conn, evictions,
                   posted>>

\* A transport is still open: it has not fired onclose and close() has not
\* been called on it.
ClientSideOpen(n) == ~conn[n].clientOnClose /\ conn[n].clientCloseCalls = 0
ServerSideOpen(n) == ~conn[n].serverOnClose /\ conn[n].serverCloseCalls = 0

\* evict(id), the external disconnect request: closes both sides if still
\* open, then removes the entry.
Evict(sessionId) ==
    /\ RegistryEvents < MaxRegistryEvents
    /\ sessionId \in DOMAIN webAppTransports
    /\ LET c == webAppTransports[sessionId]
           t == MapGet(serverTransports, sessionId)
           closedClient ==
                IF ClientSideOpen(c)
                THEN [conn EXCEPT ![c].clientCloseCalls = @ + 1]
                ELSE conn
       IN  conn' = IF t # NoTransport /\ ServerSideOpen(t)
                   THEN [closedClient EXCEPT ![t].serverCloseCalls = @ + 1]
                   ELSE closedClient
    /\ webAppTransports' = MapDelete(webAppTransports, sessionId)
    /\ serverTransports' = MapDelete(serverTransports, sessionId)
    /\ evictions' = evictions + 1
    /\ UNCHANGED <<routed, posted>>

\* A POST /message handler that calls the transport without looking whether
\* one was found: the call on undefined throws and the catch answers 500.
PostMessage_NoLookupCheck(sessionId, ok) ==
    /\ RegistryEvents < MaxRegistryEvents
    /\ Len(posted) < MaxPosted
    /\ LET transport == MapGet(webAppTransports, sessionId)
           thrown == \/ transport = NoTransport
                     \/ conn[transport].kind = "http"
                     \/ ~ok
       IN  posted' = Append(posted,
                [sessionId |-> sessionId,
                 transport |-> transport,
                 status |-> IF thrown THEN 500 ELSE 0,
                 body |-> IF thrown THEN "error" ELSE "handled"])
    /\ UNCHANGED <<webAppTransports, serverTransports, conn, routed, evictions>>

\* POST /message?sessionId=...: without a transport stored under the id the
\* answer is 404 "Session not found"; otherwise the request is handed to
\* transport.handlePostMessage, which answers it itself (status 0 here) or
\* throws (ok = FALSE, or the stored transport is a streamable HTTP one, which
\* has no handlePostMessage), and then the catch answers 500.
PostMessage(sessionId, ok) ==
    /\ RegistryEvents < MaxRegistryEvents
    /\ Len(posted) < MaxPosted
    /\ LET transport == MapGet(webAppTransports, sessionId)
           thrown == transport # NoTransport
                        /\ (conn[transport].kind = "http" \/ ~ok)
       IN  posted' = Append(posted,
                [sessionId |-> sessionId,
                 transport |-> transport,
                 status |-> CASE transport = NoTransport -> 404
                              [] thrown -> 500
                              [] OTHER -> 0,
                 body |-> CASE transport = NoTransport -> "Session not found"
                            [] thrown -> "error"
                            [] OTHER -> "handled"])
    /\ UNCHANGED <<webAppTransports, serverTransports, conn, routed, evictions>>

\* The steps the handlers take by themselves once a request has arrived.
HandlerStep ==
    \/ \E n \in Conns, sessionId \in WebAppSessionIds :
            SseTransportsCreated(n, sessionId)
    \/ \E n \in Conns : HttpTransportsCreated(n)
    \/ \E n \in Conns : StartProxy(n)
    \/ \E n \in Conns : HandleRequestDone(n)

RegistryNext ==
    \/ /\ \E n \in Conns, kind \in Kinds : Connect(n, kind)
       /\ UNCHANGED outsideRegistry
    \/ /\ \E n \in Conns : CreateTransportFailed(n)
       /\ UNCHANGED outsideRegistry
    \/ /\ \E n \in Conns, sessionId \in WebAppSessionIds :
            SseTransportsCreated(n, sessionId)
       /\ UNCHANGED outsideRegistry
    \/ /\ \E n \in Conns : HttpTransportsCreated(n)
       /\ UNCHANGED outsideRegistry
    \/ /\ \E n \in Conns : StartProxy(n)
       /\ UNCHANGED outsideRegistry
    \/ /\ \E n \in Conns, sessionId \in WebAppSessionIds :
            OnSessionInitialized(n, sessionId)
       /\ UNCHANGED outsideRegistry
    \/ /\ \E n \in Conns : HandleRequestDone(n)
       /\ UNCHANGED outsideRegistry
    \/ /\ \E n \in Conns : ConnClientOnClose(n)
       /\ UNCHANGED outsideRegistry
    \/ /\ \E n \in Conns : ConnServerOnClose(n)
       /\ UNCHANGED outsideRegistry
    \/ /\ \E sessionId \in WebAppSessionIds : RouteHttp(sessionId)
       /\ UNCHANGED outsideRegistry
    \/ /\ \E sessionId \in WebAppSessionIds : Evict(sessionId)
       /\ UNCHANGED outsideRegistry
    \/ /\ \E sessionId \in PostedSessionIds, ok \in BOOLEAN :
            PostMessage(sessionId, ok)
       /\ UNCHANGED outsideRegistry

\* The registry is studied with no envelope in flight in any proxy.
RegistryStart ==
    /\ ProxyInit /\ serverSessionId = NoSession /\ RegistryInit /\ LoggerInit
    /\ ServerWrapperInit /\ ProxyLoggersInit /\ TraceIdle /\ FactoryIdle /\ ConfigIdle

RegistrySpec == RegistryStart /\ [][RegistryNext]_vars

\* The handlers' own steps are taken once enabled (the event loop runs the
\* continuation of a settled promise); requests, transport events and
\* evictions come from outside and need not happen.
RegistryFairSpec == RegistrySpec /\ WF_vars(HandlerStep /\ UNCHANGED outsideRegistry)

\* ------------------------------------------------- debug logger operations
\* One invocation of an async operation: the operation, the await it is
\* suspended at, and the file handle its pending file operation was issued on.
NewTask(op, pc, h) == [op |-> op, pc |-> pc, h |-> h]

Running == \E t \in DOMAIN task : task[t].pc # "done"

InnerStarted == \E i \in DOMAIN innerCalls : innerCalls[i].op = "start"

Tasks(op) == {t \in DOMAIN task : task[t].op = op}

\* ensureInitialized() is the first statement of these operations.
EnsuresInitialized(op) == op \in {"start", "send", "message", "error"}

\* The record an operation appends: logMessage / logError / logClose.
RecordKind(op) ==
    CASE op = "send" -> "send"
      [] op = "message" -> "recv"
      [] op \in {"error", "proxyError"} -> "error"
      [] op \in {"close", "closeEvent", "proxyClose"} -> "close"
      [] op = "clientToServer" -> "client->server"
      [] op = "serverToClient" -> "server->client"
      [] OTHER -> "none"

\* Variant: a received message is not logged.
LogEntryPc_SkipRecv(op, handle) ==
    IF RecordKind(op) \in {"none", "recv"} \/ handle = NoHandle
    THEN "done" ELSE "write"

\* logMessage, logError and logClose return at once without a file handle and
\* otherwise suspend at the write; start() and initialize() log nothing.
LogEntryPc(op, handle) ==
    IF RecordKind(op) = "none" \/ handle = NoHandle THEN "done" ELSE "write"

\* What follows the logging in the operation: the wrapped transport's method
\* or the consumer's callback.
InnerAfter(op, t) ==
    IF op \in {"start", "send", "close"}
    THEN Append(innerCalls, [op |-> op, msg |-> t])
    ELSE innerCalls

DeliveredAfter(op, t) ==
    IF op \in {"message", "error", "closeEvent"}
    THEN Append(delivered, [op |-> op, msg |-> t])
    ELSE delivered

\* Operation t of tk runs on to its next await (pc) or to its end.
Settle(tk, t, pc, h) ==
    /\ task' = [tk EXCEPT ![t].pc = pc, ![t].h = h]
    /\ innerCalls' = IF pc = "done" THEN InnerAfter(tk[t].op, t) ELSE innerCalls
    /\ delivered' = IF pc = "done" THEN DeliveredAfter(tk[t].op, t)
                    ELSE delivered

\* The callers of the operations: they may overlap, or each operation is
\* invoked after the one before it has finished.
Overlapping ==
    /\ Len(task) < MaxTasks
    /\ Cardinality({t \in DOMAIN task : task[t].pc # "done"}) < MaxRunning

InTurn ==
    /\ Len(task) < MaxTurns
    /\ ~Running

\* An operation is invoked and runs to its first await.
Invoke(op) ==
    /\ LET t == Len(task) + 1
           tk == Append(task, NewTask(op, "new", NoHandle))
           needInit == EnsuresInitialized(op) /\ ~initialized
       IN  /\ overlapped' = (overlapped \/ Running)
           /\ initializeCalls' = IF needInit THEN initializeCalls + 1
                                 ELSE initializeCalls
           /\ IF needInit
              THEN Settle(tk, t, "init", NoHandle)
              ELSE Settle(tk, t, LogEntryPc(op, logFileHandle), logFileHandle)
    /\ UNCHANGED <<logFileHandle, initialized, initializeFailures,
                   ioFailures, openedHandles, closedHandles, logFile>>

WrapperStart ==
    /\ Tasks("start") = {}
    /\ Invoke("start")

WrapperSend == Invoke("send")

WrapperClose ==
    /\ Tasks("close") = {}
    /\ Invoke("close")

WrapperOnMessage ==
    /\ InnerStarted
    /\ Tasks("closeEvent") = {}
    /\ Invoke("message")

WrapperOnError ==
    /\ InnerStarted
    /\ Tasks("closeEvent") = {}
    /\ Invoke("error")

WrapperOnClose ==
    /\ InnerStarted
    /\ Tasks("closeEvent") = {}
    /\ Invoke("closeEvent")

\* DebugLogger.initialize() settles: the file is open, or the failure is
\* reported and swallowed; ensureInitialized() then sets the flag.
InitializeDone(t, ok) ==
    /\ t \in DOMAIN task
    /\ task[t].pc = "init"
    /\ LET handle == IF ok THEN openedHandles + 1 ELSE logFileHandle
       IN  /\ logFileHandle' = handle
           /\ openedHandles' = IF ok THEN openedHandles + 1 ELSE openedHandles
           /\ initializeFailures' = (initializeFailures \/ ~ok)
           /\ initialized' = (initialized \/ EnsuresInitialized(task[t].op))
           /\ Settle(task, t, LogEntryPc(task[t].op, handle), handle)
    /\ UNCHANGED <<initializeCalls, ioFailures, closedHandles, logFile,
                   overlapped>>

\* Variant: a failed write of a record rejects the operation.
WriteDone_Rethrow(t, ok) ==
    /\ t \in DOMAIN task
    /\ task[t].pc = "write"
    /\ ok => task[t].h \notin closedHandles
    /\ logFile' = IF ok
                  THEN Append(logFile, [kind |-> RecordKind(task[t].op),
                                        msg |-> t])
                  ELSE logFile
    /\ ioFailures' = (ioFailures \/ ~ok)
    /\ LET op == task[t].op
           pc == CASE ~ok -> "rejected"
                   [] ok /\ logFileHandle = NoHandle -> "done"
                   [] ok /\ logFileHandle # NoHandle
                         /\ RecordKind(op) = "close" -> "closeFile"
                   [] ok /\ logFileHandle # NoHandle
                         /\ RecordKind(op) = "error" -> "done"
                   [] OTHER -> "sync"
       IN  Settle(task, t, pc, logFileHandle)
    /\ UNCHANGED <<logFileHandle, initialized, initializeCalls,
                   initializeFailures, openedHandles, closedHandles,
                   overlapped>>

\* The write of a record settles.  A failure is reported and swallowed; after
\* a success logMessage syncs and logClose closes the handle the logger then
\* holds, if it still holds one.
WriteDone(t, ok) ==
    /\ t \in DOMAIN task
    /\ task[t].pc = "write"
    /\ ok => task[t].h \notin closedHandles
    /\ logFile' = IF ok
                  THEN Append(logFile, [kind |-> RecordKind(task[t].op),
                                        msg |-> t])
                  ELSE logFile
    /\ ioFailures' = (ioFailures \/ ~ok)
    /\ LET op == task[t].op
           pc == CASE ~ok -> "done"
                   [] ok /\ logFileHandle = NoHandle -> "done"
                   [] ok /\ logFileHandle # NoHandle
                         /\ RecordKind(op) = "close" -> "closeFile"
                   [] ok /\ logFileHandle # NoHandle
                         /\ RecordKind(op) = "error" -> "done"
                   [] OTHER -> "sync"
       IN  Settle(task, t, pc, logFileHandle)
    /\ UNCHANGED <<logFileHandle, initialized, initializeCalls,
                   initializeFailures, openedHandles, closedHandles,
                   overlapped>>

\* logMessage's sync settles; a failure is reported and swallowed.
SyncDone(t) ==
    /\ t \in DOMAIN task
    /\ task[t].pc = "sync"
    /\ Settle(task, t, "done", task[t].h)
    /\ UNCHANGED <<logFileHandle, initialized, initializeCalls,
                   initializeFailures, ioFailures, openedHandles,
                   closedHandles, logFile, overlapped>>

\* logClose's close of the file settles; on success the logger drops its
\* handle, a failure is swallowed.
CloseFileDone(t, ok) ==
    /\ t \in DOMAIN task
    /\ task[t].pc = "closeFile"
    /\ ok => task[t].h \notin closedHandles
    /\ closedHandles' = IF ok THEN closedHandles \cup {task[t].h}
                        ELSE closedHandles
    /\ logFileHandle' = IF ok THEN NoHandle ELSE logFileHandle
    /\ ioFailures' = (ioFailures \/ ~ok)
    /\ Settle(task, t, "done", task[t].h)
    /\ UNCHANGED <<initialized, initializeCalls, initializeFailures,
                   openedHandles, logFile, overlapped>>

WrapperNext ==
    \/ /\ Overlapping /\ WrapperStart
       /\ UNCHANGED outsideLogger
    \/ /\ Overlapping /\ WrapperSend
       /\ UNCHANGED outsideLogger
    \/ /\ Overlapping /\ WrapperClose
       /\ UNCHANGED outsideLogger
    \/ /\ Overlapping /\ WrapperOnMessage
       /\ UNCHANGED outsideLogger
    \/ /\ Overlapping /\ WrapperOnError
       /\ UNCHANGED outsideLogger
    \/ /\ Overlapping /\ WrapperOnClose
       /\ UNCHANGED outsideLogger
    \/ /\ \E t \in DOMAIN task, ok \in BOOLEAN : InitializeDone(t, ok)
       /\ UNCHANGED outsideLogger
    \/ /\ \E t \in DOMAIN task, ok \in BOOLEAN : WriteDone(t, ok)
       /\ UNCHANGED outsideLogger
    \/ /\ \E t \in DOMAIN task : SyncDone(t)
       /\ UNCHANGED outsideLogger
    \/ /\ \E t \in DOMAIN task, ok \in BOOLEAN : CloseFileDone(t, ok)
       /\ UNCHANGED outsideLogger

WrapperInit ==
    /\ ProxyInit /\ serverSessionId = NoSession /\ RegistryInit /\ LoggerInit
    /\ ServerWrapperInit /\ ProxyLoggersInit /\ TraceIdle /\ FactoryIdle /\ ConfigIdle

WrapperSpec == WrapperInit /\ [][WrapperNext]_vars

\* The same wrapper with callers that never overlap.
InTurnNext ==
    \/ /\ InTurn /\ WrapperStart
       /\ UNCHANGED outsideLogger
    \/ /\ InTurn /\ WrapperSend
       /\ UNCHANGED outsideLogger
    \/ /\ InTurn /\ WrapperClose
       /\ UNCHANGED outsideLogger
    \/ /\ InTurn /\ WrapperOnMessage
       /\ UNCHANGED outsideLogger
    \/ /\ InTurn /\ WrapperOnError
       /\ UNCHANGED outsideLogger
    \/ /\ InTurn /\ WrapperOnClose
       /\ UNCHANGED outsideLogger
    \/ /\ \E t \in DOMAIN task, ok \in BOOLEAN : InitializeDone(t, ok)
       /\ UNCHANGED outsideLogger
    \/ /\ \E t \in DOMAIN task, ok \in BOOLEAN : WriteDone(t, ok)
       /\ UNCHANGED outsideLogger
    \/ /\ \E t \in DOMAIN task : SyncDone(t)
       /\ UNCHANGED outsideLogger
    \/ /\ \E t \in DOMAIN task, ok \in BOOLEAN : CloseFileDone(t, ok)
       /\ UNCHANGED outsideLogger

InTurnInit ==
    /\ ProxyInit /\ serverSessionId = NoSession /\ RegistryInit /\ LoggerInit
    /\ ServerWrapperInit /\ ProxyLoggersInit /\ TraceIdle /\ FactoryIdle /\ ConfigIdle

InTurnSpec == InTurnInit /\ [][InTurnNext]_vars

\* ------------------------------------------------ mcpProxy's debug logger
\* mcpProxy calls the logger without awaiting it.
ProxyLogClientMessage == Invoke("clientToServer")

ProxyLogServerMessage == Invoke("serverToClient")

ProxyLogError == Invoke("proxyError")

ProxyLogClose == Invoke("proxyClose")

ProxyLogNext ==
    \/ /\ Overlapping /\ ProxyLogClientMessage
       /\ UNCHANGED outsideLogger
    \/ /\ Overlapping /\ ProxyLogServerMessage
       /\ UNCHANGED outsideLogger
    \/ /\ Overlapping /\ ProxyLogError
       /\ UNCHANGED outsideLogger
    \/ /\ Overlapping /\ ProxyLogClose
       /\ UNCHANGED outsideLogger
    \/ /\ \E t \in DOMAIN task, ok \in BOOLEAN : InitializeDone(t, ok)
       /\ UNCHANGED outsideLogger
    \/ /\ \E t \in DOMAIN task, ok \in BOOLEAN : WriteDone(t, ok)
       /\ UNCHANGED outsideLogger
    \/ /\ \E t \in DOMAIN task : SyncDone(t)
       /\ UNCHANGED outsideLogger
    \/ /\ \E t \in DOMAIN task, ok \in BOOLEAN : CloseFileDone(t, ok)
       /\ UNCHANGED outsideLogger

\* mcpProxy has returned with debug logging enabled: the logger exists and
\* its initialize() has been called and is pending.
ProxyLogInit ==
    /\ ProxyInit
    /\ serverSessionId = NoSession
    /\ RegistryInit
    /\ ServerWrapperInit /\ ProxyLoggersInit /\ TraceIdle /\ FactoryIdle /\ ConfigIdle
    /\ logFileHandle = NoHandle
    /\ initialized = FALSE
    /\ initializeCalls = 1
    /\ initializeFailures = FALSE
    /\ ioFailures = FALSE
    /\ openedHandles = 0
    /\ closedHandles = {}
    /\ logFile = <<>>
    /\ task = <<NewTask("proxyInit", "init", NoHandle)>>
    /\ innerCalls = <<>>
    /\ delivered = <<>>
    /\ overlapped = FALSE

ProxyLogSpec == ProxyLogInit /\ [][ProxyLogNext]_vars

\* --------------------------------------- server-side wrapper: operations
TransportIdle ==
    /\ ProxyInit /\ serverSessionId = NoSession /\ RegistryInit /\ LoggerInit

\* The consumer assigns wrapper.onmessage / onerror / onclose: the setter
\* stores the callback in the wrapper's own field.
SetCallback(kind) ==
    /\ serverWrapper.own[kind] = Undefined
    /\ serverWrapper' = [serverWrapper EXCEPT !.own[kind] = "consumer"]

\* start() is called and awaits ensureInitialized().
ServerWrapperStart ==
    /\ serverWrapper.pc = "new"
    /\ serverWrapper' = [serverWrapper EXCEPT !.pc = "initializing"]

\* start() continues: it keeps the callbacks the wrapped transport has at
\* this moment as the originals, installs its logging callbacks on the
\* wrapped transport and starts it.
ServerWrapperWrap ==
    /\ serverWrapper.pc = "initializing"
    /\ serverWrapper' = [serverWrapper EXCEPT
                            !.pc = "started",
                            !.original = serverWrapper.inner,
                            !.inner = [k \in EventKinds |-> "wrapper"]]

\* The wrapped transport fires an event: the callback installed on it logs
\* the event and calls the original callback, if there is one.
InnerFires(kind) ==
    /\ serverWrapper.pc = "started"
    /\ Len(serverWrapper.fired) < MaxInnerEvents
    /\ \A i \in DOMAIN serverWrapper.fired :
          serverWrapper.fired[i].kind # "close"
    /\ LET cb == serverWrapper.inner[kind]
           called == IF cb = "wrapper" THEN serverWrapper.original[kind]
                     ELSE cb
       IN  serverWrapper' = [serverWrapper EXCEPT
               !.fired = Append(@, [kind |-> kind,
                                    assigned |-> serverWrapper.own[kind]]),
               !.logCalls = IF cb = "wrapper" THEN Append(@, kind) ELSE @,
               !.consumerCalls = IF called = "consumer" THEN Append(@, kind)
                                 ELSE @]

ServerWrapperNext ==
    \/ /\ \E kind \in EventKinds : SetCallback(kind)
       /\ UNCHANGED outsideServerWrapper
    \/ /\ ServerWrapperStart
       /\ UNCHANGED outsideServerWrapper
    \/ /\ ServerWrapperWrap
       /\ UNCHANGED outsideServerWrapper
    \/ /\ \E kind \in EventKinds : InnerFires(kind)
       /\ UNCHANGED outsideServerWrapper

ServerWrapperBegin ==
    /\ TransportIdle
    /\ ServerWrapperInit /\ ProxyLoggersInit /\ TraceIdle /\ FactoryIdle /\ ConfigIdle

ServerWrapperSpec == ServerWrapperBegin /\ [][ServerWrapperNext]_vars

\* -------------------------------------- loggers of the proxies: operations
\* DebugLogger's constructor: the path of the log file.
LogFilePath(debugBasePath, role, pid) == <<debugBasePath, role, pid>>

\* mcpProxy is invoked for connection n with MCP_TRANSPORT_DEBUG_FILE set: it
\* creates a DebugLogger with the default role and calls initialize().
McpProxyCreatesLogger(n) ==
    /\ proxyLoggers[n].state = "none"
    /\ proxyLoggers' = [proxyLoggers EXCEPT ![n] =
           [state |-> "initializing",
            path |-> LogFilePath(DebugBasePath, "proxy", ServerPid)]]
    /\ UNCHANGED logFiles

\* initialize() of connection n's logger settles: the file is opened for
\* appending (and created if it does not exist), or the open fails.
ProxyLoggerInitialized(n, ok) ==
    /\ proxyLoggers[n].state = "initializing"
    /\ proxyLoggers' = [proxyLoggers EXCEPT
                           ![n].state = IF ok THEN "open" ELSE "failed"]
    /\ logFiles' = IF ok /\ proxyLoggers[n].path \notin DOMAIN logFiles
                   THEN MapSet(logFiles, proxyLoggers[n].path, <<>>)
                   ELSE logFiles

\* Connection n's logger appends a record to its file.
ProxyLoggerWrites(n) ==
    /\ proxyLoggers[n].state = "open"
    /\ \A p \in DOMAIN logFiles : Len(logFiles[p]) < MaxLogRecords
    /\ logFiles' = MapSet(logFiles, proxyLoggers[n].path,
                          Append(logFiles[proxyLoggers[n].path], n))
    /\ UNCHANGED proxyLoggers

\* Connection n's logger appends its close record and closes its handle.
ProxyLoggerCloses(n) ==
    /\ proxyLoggers[n].state = "open"
    /\ \A p \in DOMAIN logFiles : Len(logFiles[p]) < MaxLogRecords
    /\ logFiles' = MapSet(logFiles, proxyLoggers[n].path,
                          Append(logFiles[proxyLoggers[n].path], n))
    /\ proxyLoggers' = [proxyLoggers EXCEPT ![n].state = "closed"]

ProxyLoggersNext ==
    \/ /\ \E n \in Conns : McpProxyCreatesLogger(n)
       /\ UNCHANGED outsideProxyLoggers
    \/ /\ \E n \in Conns, ok \in BOOLEAN : ProxyLoggerInitialized(n, ok)
       /\ UNCHANGED outsideProxyLoggers
    \/ /\ \E n \in Conns : ProxyLoggerWrites(n)
       /\ UNCHANGED outsideProxyLoggers
    \/ /\ \E n \in Conns : ProxyLoggerCloses(n)
       /\ UNCHANGED outsideProxyLoggers

ProxyLoggersBegin ==
    /\ TransportIdle
    /\ ServerWrapperInit /\ ProxyLoggersInit /\ TraceIdle /\ FactoryIdle /\ ConfigIdle

ProxyLoggersSpec == ProxyLoggersBegin /\ [][ProxyLoggersNext]_vars

\* ------------------------------------------ transport factory: operations
\* What a caller may pass as options.url: nothing, an empty or malformed
\* text, or the text of a URL (its origin, the segments of its path, its
\* query).
Origins == {"http://localhost:3000"}
Paths == {<<>>, <<"sse">>, <<"mcp">>, <<"api">>, <<"api", "sse">>,
          <<"api", "mcp">>, <<"xsse">>, <<"sse", "">>}
Searches == {"", "?token=1"}

UrlText(form, origin, path, search) ==
    [form |-> form, origin |-> origin, path |-> path, search |-> search]

NoUrl == UrlText(Undefined, "", <<>>, "")

UrlInputs ==
    {NoUrl, UrlText("empty", "", <<>>, ""), UrlText("malformed", "", <<>>, "")}
    \cup {UrlText("url", o, p, q) : o \in Origins, p \in Paths, q \in Searches}

TransportTypes == {"stdio", "sse", "http", "websocket"}
Commands == {Undefined, "node"}
DebugBasePaths == {Undefined, "", DebugBasePath}

\* options.url ?? ""
UrlOrEmpty(url) == IF url.form = Undefined THEN UrlText("empty", "", <<>>, "")
                   ELSE url

\* new URL(text) throws unless the text is a URL.
IsUrl(text) == text.form = "url"

\* pathname.endsWith("/" + suffix): the pathname is "/" followed by the
\* segments joined with "/".
EndsWith(path, suffix) == Len(path) > 0 /\ path[Len(path)] = suffix

\* Variant: the conventional path always replaces the given one.
NormalizeUrl_AlwaysResolve(baseUrl, suffix) ==
    UrlText("url", baseUrl.origin, <<suffix>>, "")

\* baseUrl.pathname.endsWith("/sse") ? baseUrl : new URL("/sse", baseUrl)
\* (an absolute path resolved against a base replaces path and query).
NormalizeUrl(baseUrl, suffix) ==
    IF EndsWith(baseUrl.path, suffix) THEN baseUrl
    ELSE UrlText("url", baseUrl.origin, <<suffix>>, "")

NoTransportMade == [kind |-> Undefined, url |-> NoUrl, command |-> Undefined,
                    wrapped |-> FALSE]

Returned(transport) ==
    [status |-> "returned", transport |-> transport, message |-> <<>>]

Thrown(message) ==
    [status |-> "thrown", transport |-> NoTransportMade, message |-> message]

createSSETransport(options) ==
    IF IsUrl(UrlOrEmpty(options.url))
    THEN Returned([kind |-> "sse", url |-> NormalizeUrl(options.url, "sse"),
                   command |-> Undefined, wrapped |-> FALSE])
    ELSE Thrown(<<"Invalid URL">>)

createHTTPTransport(options) ==
    IF IsUrl(UrlOrEmpty(options.url))
    THEN Returned([kind |-> "http", url |-> NormalizeUrl(options.url, "mcp"),
                   command |-> Undefined, wrapped |-> FALSE])
    ELSE Thrown(<<"Invalid URL">>)

\* options.command ?? "" is looked up by findActualExecutable, which does not
\* throw for an empty command, and the StdioClientTransport constructor only
\* stores what it is given: nothing is spawned before start().
createStdioTransport(options) ==
    Returned([kind |-> "stdio", url |-> NoUrl,
              command |-> IF options.command = Undefined THEN ""
                          ELSE options.command,
              wrapped |-> FALSE])

\* Variant: every defined value counts as a configured path.
Truthy_Defined(value) == value # Undefined

\* if (debugBasePath): JavaScript truthiness of string | undefined.
Truthy(value) == value # Undefined /\ value # ""

createTransport(options, debugBasePath) ==
    LET made ==
          CASE options.transportType = "stdio" -> createStdioTransport(options)
            [] options.transportType = "sse" -> createSSETransport(options)
            [] options.transportType = "http" -> createHTTPTransport(options)
            [] OTHER -> Thrown(<<"Unsupported transport type: ",
                                 options.transportType>>)
    IN  IF made.status = "thrown"
        THEN Thrown(<<"Failed to create transport: ">> \o made.message)
        ELSE IF Truthy(debugBasePath)
             THEN Returned([made.transport EXCEPT !.wrapped = TRUE])
             ELSE made

\* A caller calls createTransport once with its options.
CallCreateTransport ==
    /\ factory.result.status = "none"
    /\ factory' = [factory EXCEPT
           !.result = createTransport(factory.options, factory.debugBasePath),
           !.attempts = IF factory.options.transportType
                            \in {"stdio", "sse", "http"}
                         THEN @ + 1 ELSE @]

FactoryNext ==
    \/ /\ CallCreateTransport
       /\ UNCHANGED outsideFactory

FactoryBegin ==
    /\ TransportIdle
    /\ ServerWrapperInit /\ ProxyLoggersInit /\ TraceIdle /\ ConfigIdle
    /\ factory \in {[options |-> [transportType |-> t, url |-> u,
                                   command |-> c],
                      debugBasePath |-> d,
                      result |-> NotCalled,
                      attempts |-> 0] :
                         t \in TransportTypes, u \in UrlInputs,
                         c \in Commands, d \in DebugBasePaths}

FactorySpec == FactoryBegin /\ [][FactoryNext]_vars

\* ------------------------------------------- /config endpoint: operations
EnvNames == {"ZEBRA_VAR", "ALPHA_VAR", "DEFAULT_A"}
EnvValues == {"x", "y"}

\* a.localeCompare(b) < 0 iff Position(a) < Position(b)
Position(name) ==
    CASE name = "ALPHA_VAR" -> 1
      [] name = "DEFAULT_A" -> 2
      [] name = "ZEBRA_VAR" -> 3

EnvEntries == [key : EnvNames, value : EnvValues]

Keys(object) == {object[i].key : i \in DOMAIN object}

\* The objects over these names, in every property order.
Objects ==
    {object \in UNION {[1..Cardinality(K) -> EnvEntries] : K \in SUBSET EnvNames} :
        Cardinality(Keys(object)) = Len(object)}

EntryOf(object, key) ==
    object[CHOOSE i \in DOMAIN object : object[i].key = key]

\* Variant: an assignment to an existing property is ignored.
Assign_KeepExisting(object, entry) ==
    IF entry.key \in Keys(object)
    THEN object
    ELSE Append(object, entry)

\* object[key] = value: an existing property keeps its place, a new one is
\* added at the end.
Assign(object, entry) ==
    IF entry.key \in Keys(object)
    THEN [i \in DOMAIN object |->
             IF object[i].key = entry.key THEN entry ELSE object[i]]
    ELSE Append(object, entry)

\* { ...a, ...b }
RECURSIVE Spread(_, _)
Spread(a, b) ==
    IF b = <<>> THEN a ELSE Spread(Assign(a, Head(b)), Tail(b))

\* One entry put in its place in a sorted array.
RECURSIVE Insert(_, _)
Insert(sorted, entry) ==
    IF sorted = <<>> THEN <<entry>>
    ELSE IF Position(entry.key) < Position(Head(sorted).key)
         THEN <<entry>> \o sorted
         ELSE <<Head(sorted)>> \o Insert(Tail(sorted), entry)

\* Object.entries(...).sort(([a], [b]) => a.localeCompare(b))
RECURSIVE SortEntries(_)
SortEntries(entries) ==
    IF entries = <<>> THEN <<>>
    ELSE Insert(SortEntries(Tail(entries)), Head(entries))

\* .reduce((acc, [k, v]) => ({ ...acc, [k]: v }), {})
RECURSIVE FromEntries(_, _)
FromEntries(acc, entries) ==
    IF entries = <<>> THEN acc
    ELSE FromEntries(Assign(Spread(<<>>, acc), Head(entries)), Tail(entries))

\* MCP_ENV_VARS ? JSON.parse(MCP_ENV_VARS) : {}
ParsedEnvVars(mcpEnvVars) ==
    IF mcpEnvVars.set THEN mcpEnvVars.entries ELSE <<>>

DefaultEnvironment(sdkDefault, mcpEnvVars) ==
    LET combinedEnvironment == Spread(Spread(<<>>, sdkDefault),
                                      ParsedEnvVars(mcpEnvVars))
    IN  FromEntries(<<>>, SortEntries(combinedEnvironment))

\* The server computes the default environment it serves.
ComputeDefaultEnvironment ==
    /\ ~config.defaultEnvironment.set
    /\ config' = [config EXCEPT !.defaultEnvironment =
           [set |-> TRUE,
            entries |-> DefaultEnvironment(config.sdkDefault,
                                           config.mcpEnvVars)]]

ConfigNext ==
    \/ /\ ComputeDefaultEnvironment
       /\ UNCHANGED outsideConfig

ConfigBegin ==
    /\ TransportIdle
    /\ ServerWrapperInit /\ ProxyLoggersInit /\ TraceIdle /\ FactoryIdle
    /\ config \in {[sdkDefault |-> d, mcpEnvVars |-> m,
                     defaultEnvironment |-> NotSet] :
                        d \in Objects,
                        m \in {NotSet} \cup {[set |-> TRUE, entries |-> e] :
                                                  e \in Objects}}

ConfigSpec == ConfigBegin /\ [][ConfigNext]_vars

\* ------------------------------------------------------- traceToWorkspace
\* A test that takes only the root project for a workspace.
IsWorkspace_RootOnly(current) == current = Root

\* !current.includes("node_modules") || current === ""
IsWorkspace(current) == ~Includes(current, NODE_MODULES) \/ current = Root

\* parentMap.get(current) (no entry: nothing to iterate)
Parents(parentMap, current) ==
    IF current \in DOMAIN parentMap THEN parentMap[current] ELSE {}

\* The orders in which a Set of parents may be iterated (its insertion
\* order, which the lockfile decides).
Orderings(S) ==
    {order \in [1..Cardinality(S) -> S] :
        \A i, j \in 1..Cardinality(S) : i # j => order[i] # order[j]}

\* One iteration of the while loop: the head of the queue is taken; a
\* visited path is skipped, a workspace path is returned, and the parents of
\* any other path are queued.
TraceIterate ==
    /\ trace.pc = "loop"
    /\ trace.queue # <<>>
    /\ LET current == Head(trace.queue).path
           child == Head(trace.queue).child
           rest == Tail(trace.queue)
       IN  IF current \in trace.visited
           THEN trace' = [trace EXCEPT !.queue = rest]
           ELSE IF IsWorkspace(current)
           THEN trace' = [trace EXCEPT
                    !.queue = rest,
                    !.visited = @ \cup {current},
                    !.visits = Append(@, current),
                    !.result = [found |-> TRUE, workspace |-> current,
                                directDependency |-> child],
                    !.pc = "done"]
           ELSE \E order \in Orderings(Parents(trace.parentMap, current)) :
                    trace' = [trace EXCEPT
                        !.queue = rest \o
                            [i \in 1..Len(order) |->
                                [path |-> order[i], child |-> current]],
                        !.visited = @ \cup {current},
                        !.visits = Append(@, current)]

\* The queue is empty: return null.
TraceExhausted ==
    /\ trace.pc = "loop"
    /\ trace.queue = <<>>
    /\ trace' = [trace EXCEPT !.result = NoOwner, !.pc = "done"]

TraceNext ==
    \/ /\ TraceIterate
       /\ UNCHANGED outsideTrace
    \/ /\ TraceExhausted
       /\ UNCHANGED outsideTrace

\* traceToWorkspace(startPath, parentMap) at the head of its loop, for every
\* start path and parent map.
TraceBegin ==
    /\ TransportIdle
    /\ ServerWrapperInit /\ ProxyLoggersInit /\ FactoryIdle /\ ConfigIdle
    /\ trace \in {[pc |-> "loop", parentMap |-> m, startPath |-> s,
                   queue |-> <<[path |-> s, child |-> s]>>,
                   visited |-> {}, visits |-> <<>>, result |-> NoOwner] :
                        m \in ParentMaps, s \in PkgPaths}

\* The loop is synchronous code: it runs on until it returns.
TraceSpec == TraceBegin /\ [][TraceNext]_vars /\ WF_vars(TraceNext)

\* ------------------------------------------------------------ properties
\* The error responses sent for the failed call i of transportToServer.send.
ErrorResponsesFor(i) ==
    { k \in 1..Len(clientSendCalls) :
        /\ clientSendCalls[k].origin = "error"
        /\ clientSendCalls[k].cause = i }

NoSendFailure ==
    /\ \A i \in 1..Len(serverSendCalls) : serverSendCalls[i].outcome # FAILED
    /\ \A k \in 1..Len(clientSendCalls) : clientSendCalls[k].outcome # FAILED

Envelope(call) == call.msg

\* C1: when the client-facing transport fires onclose first (and once),
\* close() has been invoked exactly once on the server-facing transport and
\* no onclose of the server-facing transport invokes close() on the
\* client-facing transport; symmetrically when the server-facing transport
\* fires onclose first.
C1_NoCloseCycle ==
    /\ (firstClosed = "client" /\ clientOnCloseEvents = 1)
            => (serverCloseCalls = 1 /\ clientCloseCalls = 0)
    /\ (firstClosed = "server" /\ serverOnCloseEvents = 1)
            => (clientCloseCalls = 1 /\ serverCloseCalls = 0)

C1_Witness ==
    /\ firstClosed = "client"
    /\ clientOnCloseEvents = 1
    /\ serverOnCloseEvents >= 1
    /\ serverCloseCalls = 1
    /\ clientCloseCalls = 0

\* C2: as long as each transport has fired onclose at most once, close() has
\* been invoked at most once on each transport, whatever messages, errors
\* and send failures occurred.
C2_CloseAtMostOnce ==
    (clientOnCloseEvents <= 1 /\ serverOnCloseEvents <= 1)
        => (serverCloseCalls <= 1 /\ clientCloseCalls <= 1)

C2_Witness ==
    /\ clientOnCloseEvents = 1
    /\ serverOnCloseEvents = 1
    /\ serverCloseCalls + clientCloseCalls = 1
    /\ \E i \in 1..Len(serverSendCalls) : serverSendCalls[i].outcome = FAILED

\* C3: once the client-facing transport has fired onclose first, further
\* onclose events of the client-facing transport are no-ops: close() of the
\* server-facing transport has been invoked exactly once.
C3_SecondClientCloseNoOp ==
    (firstClosed = "client" /\ clientOnCloseEvents >= 1) => serverCloseCalls = 1

\* C4: a failed send invokes close() on neither transport and changes
\* neither closed flag; close() of a transport is invoked only by the other
\* transport's onclose handler.
C4_SendFailureNeverCloses ==
    [][ /\ ( \/ \E i \in 1..Len(serverSendCalls), error \in SendErrors :
                    ServerSendReject(i, error)
             \/ \E i \in 1..Len(clientSendCalls), error \in SendErrors :
                    ClientSendReject(i, error) )
            => UNCHANGED <<transportToClientClosed, transportToServerClosed,
                           serverCloseCalls, clientCloseCalls>>
        /\ serverCloseCalls' # serverCloseCalls => ClientOnClose
        /\ clientCloseCalls' # clientCloseCalls => ServerOnClose ]_vars

C4_Witness ==
    /\ \E i \in 1..Len(serverSendCalls) : serverSendCalls[i].outcome = FAILED
    /\ \E k \in 1..Len(clientSendCalls) :
            /\ clientSendCalls[k].outcome = FAILED
            /\ clientSendCalls[k].origin = "error"
    /\ serverCloseCalls = 0
    /\ clientCloseCalls = 0

C6_ErrorResponseShape ==
    \A k \in 1..Len(clientSendCalls) :
        clientSendCalls[k].origin = "error" =>
            LET failed == serverSendCalls[clientSendCalls[k].cause]
                sent == clientSendCalls[k].msg
            IN  /\ failed.outcome = FAILED
                /\ sent.jsonrpc = "2.0"
                /\ sent.id = failed.msg.id
                /\ sent.error.code = -32001
                /\ sent.error.message = failed.error.message

C6_Witness ==
    /\ Len(clientSendCalls) = 2
    /\ \A k \in 1..2 : clientSendCalls[k].origin = "error"
    /\ clientSendCalls[1].msg.id # clientSendCalls[2].msg.id
    /\ clientSendCalls[1].msg.error.message # clientSendCalls[2].msg.error.message

\* C7: a failed transportToServer.send of a notification (an envelope without
\* id) sends nothing to the client-facing transport.
C7_NotificationFailureSendsNothing ==
    [][ \A i \in 1..Len(serverSendCalls), error \in SendErrors :
            (ServerSendReject(i, error) /\ serverSendCalls[i].msg.id = NoId)
                => clientSendCalls' = clientSendCalls ]_vars

C7_Witness ==
    /\ \E i \in 1..Len(serverSendCalls) :
            /\ serverSendCalls[i].msg.id = NoId
            /\ serverSendCalls[i].outcome = FAILED
            /\ ~serverSendCalls[i].clientClosedAtFailure
    /\ clientSendCalls = <<>>

\* C8: while no send has failed, the envelopes passed to
\* transportToServer.send are the envelopes the client-facing transport
\* delivered, unmodified and in the same order, and the envelopes passed to
\* transportToClient.send are those the server-facing transport delivered.
C8_RelayIsFaithful ==
    NoSendFailure =>
        /\ Len(serverSendCalls) = Len(clientRecv)
        /\ \A i \in 1..Len(clientRecv) :
                Envelope(serverSendCalls[i]) = Envelope(clientRecv[i])
        /\ Len(clientSendCalls) = Len(serverRecv)
        /\ \A k \in 1..Len(serverRecv) :
                Envelope(clientSendCalls[k]) = Envelope(serverRecv[k])

C8_Witness ==
    /\ NoSendFailure
    /\ Len(clientRecv) = 2
    /\ Envelope(clientRecv[1]) # Envelope(clientRecv[2])
    /\ Len(serverRecv) = 1
    /\ Len(serverSendCalls) = 2
    /\ Len(clientSendCalls) = 1

\* C9: the session-id diagnostic is emitted at most once, and exactly once
\* (with the id exposed then) when the server-facing transport exposed a
\* session id at its first message.
C9_SessionReportedOnce ==
    /\ Len(diag.session) <= 1
    /\ (Len(serverRecv) >= 1 /\ serverRecv[1].sessionId # NoSession)
            => diag.session = <<serverRecv[1].sessionId>>

C9_Witness ==
    /\ Len(serverRecv) >= 2
    /\ serverRecv[1].sessionId # NoSession
    /\ Len(diag.session) = 1

\* C10: when transportToClient.send of a forwarded server envelope rejects,
\* the proxy reports one client-side error and does nothing else: no send to
\* either transport (no synthesized response, no retry).
C10_ForwardFailureOnlyReported ==
    [][ \A k \in 1..Len(clientSendCalls), error \in SendErrors :
            (ClientSendReject(k, error) /\ clientSendCalls[k].origin = "forward")
                => /\ serverSendCalls' = serverSendCalls
                   /\ Len(clientSendCalls') = Len(clientSendCalls)
                   /\ diag' = [diag EXCEPT !.client = @ + 1] ]_vars

C10_Witness ==
    /\ \E k \in 1..Len(clientSendCalls) :
            /\ clientSendCalls[k].origin = "forward"
            /\ clientSendCalls[k].outcome = FAILED
    /\ diag.client = 1
    /\ serverSendCalls = <<>>
    /\ Len(clientSendCalls) = Len(serverRecv)

\* C11: an onerror event of either transport changes no flag of the proxy and
\* invokes neither send nor close on either transport; a server error of a
\* known pattern differs from any other only in the diagnostic written.
C11_ErrorEventsOnlyDiagnose ==
    [][ /\ (\E error \in Errors : ClientOnError(error))
            => /\ UNCHANGED <<flags, serverSessionId, recvs, sends, closes>>
               /\ diag' = [diag EXCEPT !.client = @ + 1]
        /\ (\E error \in Errors : ServerOnError(error))
            => /\ UNCHANGED <<flags, serverSessionId, recvs, sends, closes>>
               /\ diag'.session = diag.session
               /\ diag'.client = diag.client
               /\ diag'.refused + diag'.server = diag.refused + diag.server + 1
      ]_vars

C11_Witness ==
    /\ serverOnErrorEvents = 1
    /\ clientOnErrorEvents = 1
    /\ diag.refused = 1
    /\ diag.client = 1
    /\ Len(serverSendCalls) = 1
    /\ serverCloseCalls = 0
    /\ clientCloseCalls = 0

\* Connection n's transports are stored in the registry.
Registered(n) ==
    \E sessionId \in DOMAIN webAppTransports : webAppTransports[sessionId] = n

C13_MapsHaveSameKeys == DOMAIN webAppTransports = DOMAIN serverTransports

C13_Witness ==
    /\ evictions = 1
    /\ Cardinality(DOMAIN webAppTransports) = 1
    /\ Cardinality({n \in Conns : conn[n].sessionId # NoSession}) = 2

\* C14: once a transport of a registered session has fired onclose, the
\* session's entry is eventually removed from the registry.
C14_ClosedSessionRemoved ==
    \A n \in Conns :
        ((conn[n].clientOnClose \/ conn[n].serverOnClose) /\ Registered(n))
            ~> ~Registered(n)

Delegated(t) ==
    \/ \E i \in DOMAIN innerCalls :
          innerCalls[i] = [op |-> task[t].op, msg |-> t]
    \/ \E i \in DOMAIN delivered :
          delivered[i] = [op |-> task[t].op, msg |-> t]

\* C16: whatever fails in opening the log file or in writing a record, no
\* operation of the wrapper is rejected, and every operation that has finished
\* has called the wrapped transport's method (start, send, close) or the
\* consumer's callback (message, error, close event).
C16_LoggingNeverBlocks ==
    \A t \in DOMAIN task :
        /\ task[t].pc # "rejected"
        /\ task[t].pc = "done" => Delegated(t)

\* A send whose record could not be written has reached the wrapped
\* transport, and a message that arrived after the log file failed to open
\* has reached the consumer.
C16_Witness ==
    /\ ioFailures
    /\ logFile = <<>>
    /\ \E t \in DOMAIN task :
          /\ task[t].op = "send"
          /\ task[t].pc = "done"
          /\ task[t].h # NoHandle
          /\ Delegated(t)

\* C17: DebugLogger.initialize() is called at most once on a wrapper,
\* whatever the interleaving of its operations.
C17_InitializeAtMostOnce == initializeCalls <= 1

\* C18: once an initialization of the log file has failed, the wrapper never
\* calls initialize() again and appends nothing to the log file, and the
\* operations that finish still reach the wrapped transport or the consumer.
C18_NoLoggingAfterFailedInit ==
    [][initializeFailures =>
          /\ initializeCalls' = initializeCalls
          /\ logFile' = logFile
          /\ \A t \in DOMAIN task' :
                task'[t].pc = "done" => Delegated(t)']_vars

\* The records a run of sends and received messages should leave, in the
\* order of the events.
ExpectedEntries ==
    SelectSeq([t \in DOMAIN task |->
                  [kind |-> RecordKind(task[t].op), msg |-> t]],
              LAMBDA e : e.kind \in {"send", "recv"})

\* The operations were sends and received messages (and the start), invoked
\* one at a time, with nothing but closes after the first close; the log file
\* was opened successfully and every operation has finished.
SendsAndReceivesThenClose ==
    /\ ~overlapped
    /\ ~Running
    /\ openedHandles = 1
    /\ ~initializeFailures
    /\ \A t \in DOMAIN task :
          /\ task[t].op # "error"
          /\ RecordKind(task[t].op) = "close" =>
                \A u \in DOMAIN task :
                    u > t => RecordKind(task[u].op) = "close"

LogIsEntriesThenOneClose ==
    LET entries == SelectSeq(logFile, LAMBDA e : e.kind # "close")
        closeRecords == SelectSeq(logFile, LAMBDA e : e.kind = "close")
    IN  /\ entries = ExpectedEntries
        /\ Len(closeRecords) <= 1
        /\ closeRecords # <<>> => logFile[Len(logFile)].kind = "close"

EntriesOf(t) ==
    {i \in DOMAIN logFile :
        logFile[i] = [kind |-> RecordKind(task[t].op), msg |-> t]}

\* C20: with debug logging enabled in mcpProxy, once the logger is idle every
\* envelope either transport's onmessage delivered has exactly one entry in
\* the log, also when it arrived before initialize() had completed (here:
\* even when the log file opened, every file operation succeeded and no
\* close was logged).
C20_EveryEnvelopeLoggedOnce ==
    (/\ ~Running
     /\ ~initializeFailures
     /\ ~ioFailures
     /\ Tasks("proxyClose") = {})
    => \A t \in Tasks("clientToServer") \cup Tasks("serverToClient") :
          Cardinality(EntriesOf(t)) = 1

\* ------------------------------------------- properties: closed client side
\* The synthesized error responses mcpProxy has sent to the client.
ErrorResponses ==
    {k \in 1..Len(clientSendCalls) : clientSendCalls[k].origin = "error"}

\* C29: once the client side is closed - the client-facing transport fired
\* onclose while the server side was open, or mcpProxy has invoked close() on
\* it - no synthesized error response is sent to it.
C29_NoErrorResponseToClosedClient ==
    [][(transportToClientClosed \/ clientCloseCalls > 0)
          => {k \in 1..Len(clientSendCalls') :
                 clientSendCalls'[k].origin = "error"} = ErrorResponses]_vars

\* C30: the two closed flags are never both true, and a flag that is true
\* stays true.
C30_AtMostOneFlagAndMonotone ==
    /\ [](~(transportToClientClosed /\ transportToServerClosed))
    /\ [][/\ transportToClientClosed => transportToClientClosed'
          /\ transportToServerClosed => transportToServerClosed']_vars

\* Both transports have fired onclose, and only the first one's flag is set.
C30_Witness ==
    /\ clientOnCloseEvents >= 1
    /\ serverOnCloseEvents >= 1
    /\ transportToServerClosed
    /\ ~transportToClientClosed

\* --------------------------------------------- properties: wrapper, logger
\* C22: the wrapper calls the consumer's onmessage callback for no message
\* after it has called the consumer's onclose callback (the wrapped transport
\* itself fires no message after its close event) - here even when the log
\* file opened and no file operation failed.
C22_NoMessageAfterClose ==
    (~initializeFailures /\ ~ioFailures) =>
        \A i, j \in DOMAIN delivered :
            (delivered[i].op = "closeEvent" /\ delivered[j].op = "message")
                => j < i

\* The write of the record of a finished operation has failed: the operation
\* held a file handle and left no record.
WriteFailed ==
    \E t \in DOMAIN task :
        /\ task[t].pc = "done"
        /\ RecordKind(task[t].op) # "none"
        /\ task[t].h # NoHandle
        /\ EntriesOf(t) = {}

\* C23: after the write of a record has failed, the logger attempts no
\* further write to the log file.
C23_NoWriteAfterFailedWrite ==
    [][WriteFailed =>
          \A t \in DOMAIN task' :
              task'[t].pc = "write" => (t \in DOMAIN task
                                         /\ task[t].pc = "write")]_vars

\* -------------------------------------- properties: server-side wrapper
\* The events the consumer should have received: those fired while the
\* consumer had a callback for them assigned on the wrapper.
EventsForConsumer ==
    LET due == SelectSeq(serverWrapper.fired,
                         LAMBDA e : e.assigned = "consumer")
    IN  [i \in DOMAIN due |-> due[i].kind]

\* C21: every message, error and close event the wrapped transport fires
\* after start() is delivered exactly once, in order, to the callback the
\* consumer assigned on the wrapper, whether it was assigned before or after
\* start().
C21_WrapperIsTransparent == serverWrapper.consumerCalls = EventsForConsumer

\* ------------------------------------- properties: loggers of the proxies
\* C24: with two mcpProxy invocations logging at the same time, every log
\* file holds records of at most one logger.
C24_OneLoggerPerFile ==
    \A p \in DOMAIN logFiles :
        \A i, j \in DOMAIN logFiles[p] : logFiles[p][i] = logFiles[p][j]

\* ---------------------------------------- properties: transport factory
Called == factory.result.status # "none"

\* The inputs for which the claim expects a creation error.
BadOptions ==
    LET options == factory.options
    IN  \/ options.transportType \notin {"stdio", "sse", "http"}
        \/ /\ options.transportType \in {"sse", "http"}
           /\ options.url.form # "url"
        \/ /\ options.transportType = "stdio"
           /\ options.command = Undefined

\* C25: for an unsupported kind, a malformed or absent URL of an sse/http
\* request, or a missing command of a stdio request, createTransport throws
\* an error whose message wraps the cause and returns no transport, after at
\* most one construction attempt.
C25_BadOptionsRaiseCreationError ==
    (Called /\ BadOptions) =>
        /\ factory.result.status = "thrown"
        /\ factory.result.message[1] = "Failed to create transport: "
        /\ Len(factory.result.message) > 1
        /\ factory.attempts <= 1

Suffix(kind) == IF kind = "sse" THEN "sse" ELSE "mcp"

\* C26: the URL of a created sse (http) transport has a path that ends with
\* /sse (/mcp); a given URL whose path already ends so is used unchanged;
\* and normalizing the result again changes nothing.
C26_NormalizedUrl ==
    (factory.result.status = "returned"
        /\ factory.result.transport.kind \in {"sse", "http"}) =>
        LET given == factory.options.url
            suffix == Suffix(factory.result.transport.kind)
            url == factory.result.transport.url
        IN  /\ EndsWith(url.path, suffix)
            /\ EndsWith(given.path, suffix) => url = given
            /\ NormalizeUrl(url, suffix) = url

\* An sse transport was created for a URL with another path and a query, and
\* an http transport for a URL that ends with /mcp under a prefix.
C26_Witness ==
    /\ factory.result.status = "returned"
    /\ \/ /\ factory.result.transport.kind = "sse"
          /\ factory.options.url.path = <<"api", "mcp">>
          /\ factory.options.url.search # ""
          /\ factory.result.transport.url.path = <<"sse">>
       \/ /\ factory.result.transport.kind = "http"
          /\ factory.options.url.path = <<"api", "mcp">>
          /\ factory.result.transport.url = factory.options.url

\* C27: a transport returned by createTransport is wrapped by the logging
\* decorator exactly when MCP_TRANSPORT_DEBUG_FILE is set and not empty,
\* whatever its kind.
C27_WrappedIffDebugPath ==
    factory.result.status = "returned" =>
        (factory.result.transport.wrapped
            <=> factory.debugBasePath \notin {Undefined, ""})

\* A stdio transport is returned unwrapped with MCP_TRANSPORT_DEBUG_FILE set
\* to the empty text.
C27_Witness ==
    /\ factory.result.status = "returned"
    /\ factory.result.transport.kind = "stdio"
    /\ factory.debugBasePath = ""
    /\ ~factory.result.transport.wrapped

\* ------------------------------------------- properties: /config endpoint
\* C28: the default environment served has the keys of the SDK default
\* environment and of MCP_ENV_VARS (none when it is unset), each with the
\* value of MCP_ENV_VARS if it has the key and of the SDK default otherwise,
\* in alphabetical order of the keys.
C28_DefaultEnvironmentMergedAndSorted ==
    config.defaultEnvironment.set =>
        LET served == config.defaultEnvironment.entries
            overrides == ParsedEnvVars(config.mcpEnvVars)
        IN  /\ Keys(served) = Keys(config.sdkDefault) \cup Keys(overrides)
            /\ Len(served) = Cardinality(Keys(served))
            /\ \A i \in DOMAIN served :
                  served[i] = IF served[i].key \in Keys(overrides)
                              THEN EntryOf(overrides, served[i].key)
                              ELSE EntryOf(config.sdkDefault, served[i].key)
            /\ \A i, j \in DOMAIN served :
                  i < j => Position(served[i].key) < Position(served[j].key)

\* MCP_ENV_VARS overrides a value of the SDK default and adds a key, and
\* neither of the two was in alphabetical order.
C28_Witness ==
    /\ config.defaultEnvironment.set
    /\ config.sdkDefault = <<[key |-> "ZEBRA_VAR", value |-> "x"],
                             [key |-> "DEFAULT_A", value |-> "x"]>>
    /\ config.mcpEnvVars.set
    /\ config.mcpEnvVars.entries = <<[key |-> "ZEBRA_VAR", value |-> "y"],
                                     [key |-> "ALPHA_VAR", value |-> "y"]>>
    /\ config.defaultEnvironment.entries =
          <<[key |-> "ALPHA_VAR", value |-> "y"],
            [key |-> "DEFAULT_A", value |-> "x"],
            [key |-> "ZEBRA_VAR", value |-> "y"]>>

\* ------------------------------------------- properties of the relay, again
\* C31: once the client-facing transport has fired onclose, send is invoked
\* on the client-facing transport no more, whatever the server-facing
\* transport still delivers.
C31_NoClientSendAfterClientClose ==
    [][clientOnCloseEvents >= 1
         => Len(clientSendCalls') = Len(clientSendCalls)]_vars

\* C32: when the server-facing transport exposes no session id at its first
\* message, the session-id diagnostic is never emitted, whatever it exposes
\* at later messages.
C32_SessionCheckedAtFirstMessageOnly ==
    (Len(serverRecv) >= 1 /\ serverRecv[1].sessionId = NoSession)
        => diag.session = <<>>

C32_Witness ==
    /\ Len(serverRecv) >= 2
    /\ serverRecv[1].sessionId = NoSession
    /\ serverRecv[2].sessionId # NoSession
    /\ diag.session = <<>>

\* C33: when transportToClient.send of a synthesized error response rejects,
\* the proxy reports one client-side error and stops: no send to either
\* transport, no close, no flag changed; and a failed client request never
\* has more than one error response sent for it.
C33_FailedErrorResponseOnlyReported ==
    /\ [](\A i \in 1..Len(serverSendCalls) :
                Cardinality(ErrorResponsesFor(i)) <= 1)
    /\ [][ \A k \in 1..Len(clientSendCalls), error \in SendErrors :
            (ClientSendReject(k, error) /\ clientSendCalls[k].origin = "error")
                => /\ serverSendCalls' = serverSendCalls
                   /\ Len(clientSendCalls') = Len(clientSendCalls)
                   /\ UNCHANGED <<flags, closes>>
                   /\ diag' = [diag EXCEPT !.client = @ + 1] ]_vars

C33_Witness ==
    /\ \E k \in 1..Len(clientSendCalls) :
            /\ clientSendCalls[k].origin = "error"
            /\ clientSendCalls[k].outcome = FAILED
    /\ Len(clientSendCalls) = 1
    /\ Len(serverSendCalls) = 1
    /\ diag.client = 1
    /\ serverCloseCalls = 0
    /\ clientCloseCalls = 0

\* ------------------------------------- properties of the wrapper, again
\* C34: the consumer's onmessage callback is called for the inbound messages
\* in the order in which the wrapped transport delivered them (the
\* operations are numbered in the order of their invocation).
C34_MessagesDeliveredInOrder ==
    \A i, j \in DOMAIN delivered :
        (i < j /\ delivered[i].op = "message" /\ delivered[j].op = "message")
            => delivered[i].msg < delivered[j].msg

\* C35: the log file of one logger holds at most one close record, and no
\* record after it, however often and however overlapping logClose is called.
C35_OneCloseRecordAtTheEnd ==
    \A i \in DOMAIN logFile :
        logFile[i].kind = "close" => i = Len(logFile)

\* C36: a server-side error - an onerror event of the server-facing
\* transport or a rejected close() of it - is reported with the 'Connection
\* refused' diagnostic exactly when its message holds the endpoint-not-found
\* text or its serialized cause holds ECONNREFUSED, and with the generic
\* server-error diagnostic otherwise.
C36_ServerErrorClassified ==
    [][ \A error \in Errors :
            (ServerOnError(error) \/ ServerCloseReject(error))
                => IF \/ \E k \in DOMAIN error.message : error.message[k] = HTTP404
                      \/ \E k \in DOMAIN error.cause : error.cause[k] = ECONNREFUSED
                   THEN diag' = [diag EXCEPT !.refused = @ + 1]
                   ELSE diag' = [diag EXCEPT !.server = @ + 1] ]_vars

C36_Witness ==
    /\ diag.refused = 1
    /\ diag.server = 1
    /\ serverOnErrorEvents = 1
    /\ serverCloseCalls = 1
    /\ serverClosePending = 0

\* --------------------------------------- properties of the registry, again
\* C37: a POST /message whose session id is not in the registry is answered
\* with 404 "Session not found"; no transport is invoked and the registry
\* and its connections stay as they were.
C37_UnknownSessionNotFound ==
    [][ \A sessionId \in PostedSessionIds, ok \in BOOLEAN :
            (PostMessage(sessionId, ok)
                    /\ sessionId \notin DOMAIN webAppTransports)
                => /\ posted' = Append(posted,
                        [sessionId |-> sessionId, transport |-> NoTransport,
                         status |-> 404, body |-> "Session not found"])
                   /\ UNCHANGED <<webAppTransports, serverTransports, conn,
                                  routed, evictions>> ]_vars

C37_Witness ==
    /\ \E k \in DOMAIN posted :
            /\ posted[k].status = 404
            /\ posted[k].sessionId \in WebAppSessionIds
            /\ posted[k].sessionId \notin DOMAIN webAppTransports
    /\ DOMAIN webAppTransports # {}

\* ------------------------------------------- properties of traceToWorkspace
\* The paths reached from the paths of S through parent links.
RECURSIVE ReachableFrom(_, _)
ReachableFrom(parentMap, S) ==
    LET step == S \cup UNION {Parents(parentMap, p) : p \in S}
    IN  IF step = S THEN S ELSE ReachableFrom(parentMap, step)

WorkspacesReachable ==
    {p \in ReachableFrom(trace.parentMap, {trace.startPath}) :
        p = Root \/ \A k \in DOMAIN p : p[k] # NODE_MODULES}

TraceResultRight ==
    IF WorkspacesReachable = {}
    THEN trace.result = NoOwner
    ELSE /\ trace.result.found
         /\ trace.result.workspace \in WorkspacesReachable
         /\ IF trace.result.workspace = trace.startPath
            THEN trace.result.directDependency = trace.startPath
            ELSE /\ trace.result.directDependency \in
                        ReachableFrom(trace.parentMap, {trace.startPath})
                 /\ trace.result.workspace \in
                        Parents(trace.parentMap, trace.result.directDependency)

\* C38: traceToWorkspace returns for every parent map, cycles included; no
\* path is visited twice; the result is a workspace path reachable from the
\* start path through parent links, with the path whose parent it is (the
\* start path itself when that is a workspace), or null when no workspace
\* path is reachable.
C38_TraceTerminatesWithOwner ==
    /\ [](\A i, j \in DOMAIN trace.visits :
                i # j => trace.visits[i] # trace.visits[j])
    /\ [](trace.pc = "done" => TraceResultRight)
    /\ <>(trace.pc = "done")

C38_Witness ==
    /\ trace.pc = "done"
    /\ trace.result.found
    /\ trace.result.workspace # trace.startPath
    /\ Len(trace.visits) >= 3
    /\ \E p \in trace.visited :
            p \in ReachableFrom(trace.parentMap, Parents(trace.parentMap, p))

====
